---------------------------- MODULE Spec2Model ----------------------------
(***************************************************************************)
(* A model of StringParser (src/src/GCodes/GCodeBuffer/StringParser.cpp):  *)
(* the byte-at-a-time line assembler (Put, LineFinished), the block        *)
(* controller (ProcessConditionalGCode and its handlers), the command      *)
(* decoder (DecodeCommand, SetFinished) and the parameter reader (Seen and *)
(* the typed getters).                                                     *)
(*                                                                         *)
(* A character is a one-character string; the control characters have     *)
(* names (NUL, TAB, LF, CR, DEL).  The line buffer gb.buffer is a function *)
(* from 0..BufSize-1 to characters: like the C array it keeps whatever an  *)
(* earlier line left behind the current one.                               *)
(***************************************************************************)
EXTENDS Integers, Sequences, FiniteSets, TLC

(***************************************************************************)
(* Characters                                                              *)
(***************************************************************************)
NUL == "NUL"
TAB == "TAB"
LF  == "LF"
CR  == "CR"
DEL == "DEL"

UpperSeq == << "A","B","C","D","E","F","G","H","I","J","K","L","M",
               "N","O","P","Q","R","S","T","U","V","W","X","Y","Z" >>
LowerSeq == << "a","b","c","d","e","f","g","h","i","j","k","l","m",
               "n","o","p","q","r","s","t","u","v","w","x","y","z" >>
DigitSeq == << "0","1","2","3","4","5","6","7","8","9" >>

Range(s) == { s[i] : i \in DOMAIN s }
IndexOf(s, c) == CHOOSE i \in DOMAIN s : s[i] = c

UpperSet == Range(UpperSeq)
LowerSet == Range(LowerSeq)
DigitSet == Range(DigitSeq)

\* The punctuation the model's inputs use, with its ASCII code.
PunctCode == [ c \in { " ", "\"", "'", "(", ")", "*", "+", "-", ".", ":", ";",
                       "_", "{", "}" } |->
               CASE c = " "  -> 32 [] c = "\"" -> 34 [] c = "'" -> 39
                 [] c = "("  -> 40 [] c = ")"  -> 41 [] c = "*" -> 42
                 [] c = "+"  -> 43 [] c = "-"  -> 45 [] c = "." -> 46
                 [] c = ":"  -> 58 [] c = ";"  -> 59 [] c = "_" -> 95
                 [] c = "{"  -> 123 [] c = "}" -> 125 ]

CharSet == UpperSet \cup LowerSet \cup DigitSet \cup DOMAIN PunctCode
             \cup { NUL, TAB, LF, CR, DEL }

\* (uint8_t)c
Ord == [ c \in CharSet |->
         CASE c \in UpperSet -> 64 + IndexOf(UpperSeq, c)
           [] c \in LowerSet -> 96 + IndexOf(LowerSeq, c)
           [] c \in DigitSet -> 47 + IndexOf(DigitSeq, c)
           [] c = NUL -> 0 [] c = TAB -> 9 [] c = LF -> 10 [] c = CR -> 13
           [] c = DEL -> 127
           [] OTHER -> PunctCode[c] ]

isDigit(c) == c \in DigitSet
isAlpha(c) == c \in UpperSet \cup LowerSet
toUpper(c) == IF c \in LowerSet THEN UpperSeq[IndexOf(LowerSeq, c)] ELSE c
toLower(c) == IF c \in UpperSet THEN LowerSeq[IndexOf(UpperSeq, c)] ELSE c
DigitVal(c) == IndexOf(DigitSeq, c) - 1
\* c < ' ' for a (signed) char holding a 7-bit code
IsControl(c) == Ord[c] < 32

\* a ^ b on 8-bit values
XorBit(a, b, i) == (((a \div (2 ^ i)) + (b \div (2 ^ i))) % 2) * (2 ^ i)
Xor8(a, b) == XorBit(a, b, 0) + XorBit(a, b, 1) + XorBit(a, b, 2) + XorBit(a, b, 3)
            + XorBit(a, b, 4) + XorBit(a, b, 5) + XorBit(a, b, 6) + XorBit(a, b, 7)

U8(n)  == n % 256

\* A 32-bit unsigned value.  The numbers the inputs of this model hold are far
\* below 2^31, where unsigned 32-bit arithmetic is exact; a negative number read
\* as unsigned is kept as its two's-complement pattern, written as the negative
\* integer with the same 32 bits.
U32(n) == n

\* The decimal text of n >= 0, as printf("%u") writes it.
RECURSIVE DecimalText(_)
DecimalText(n) == IF n < 10 THEN << DigitSeq[n + 1] >>
                  ELSE Append(DecimalText(n \div 10), DigitSeq[(n % 10) + 1])


(***************************************************************************)
(* Bounds of the model                                                     *)
(***************************************************************************)
\* ARRAY_SIZE(gb.buffer): the capacity of the line buffer (a build-time
\* constant of GCodeBuffer, which is not part of the sources modelled).
BufSize == 20
\* The number of lines the input stream delivers in one run.
MaxLines == 2

NoIndentSkip == 65535

(***************************************************************************)
(* State.  gb holds the fields of the GCodeBuffer, of its StringParser and *)
(* of the MachineState the parser reads and writes; exc is the message of  *)
(* the exception the last call left by ("" when it returned), ret what it  *)
(* returned.                                                               *)
(***************************************************************************)
VARIABLES gb,        \* the parser, its buffer and its machine state
          pending,   \* the bytes of the current input line not yet fed to Put
          linesFed,  \* the number of lines the input has started
          script,    \* the whole file when the run reads a scripted file, else << >>
          source,    \* which set of lines the input stream draws from
          lastOp,    \* the last operation called on the parser, with its argument
          obs        \* what an observer of the calls has recorded

vars == << gb, pending, linesFed, script, source, lastOp, obs >>

PlainBlock   == [ kind |-> "plain",   filePos |-> 0, lineNumber |-> 0 ]
IfTrueBlock  == [ kind |-> "ifTrue",  filePos |-> 0, lineNumber |-> 0 ]
IfFalseBlock == [ kind |-> "ifFalse", filePos |-> 0, lineNumber |-> 0 ]
LoopBlock(pos, line) == [ kind |-> "loop", filePos |-> pos, lineNumber |-> line ]

\* gb.buffer[i], for the reads at an index the code has walked to from inside
\* the line
BufAt(w, i) == IF i \in 0 .. (BufSize - 1) THEN w.buffer[i] ELSE NUL

\* (&gb.buffer[commandIndent])[i - commandIndent]: commandIndent counts blanks
\* that are not stored, so the index may lie outside the array, and the read
\* then yields whatever lies behind it.  w.behind holds the bytes the build has
\* put there, which a run draws from BehindChoices when the parser is
\* constructed.
MemoryAt(w, i) == IF i \in 0 .. (BufSize - 1) THEN w.buffer[i]
                  ELSE IF (i - BufSize) + 1 \in DOMAIN w.behind THEN w.behind[(i - BufSize) + 1]
                  ELSE NUL

\* buffer[from .. from+Len(text)-1] := text, as far as the array goes
WriteAt(buf, from, text) ==
    [ i \in DOMAIN buf |->
        IF i >= from /\ i < from + Len(text) THEN text[i - from + 1] ELSE buf[i] ]

Raise(w, msg) == [ w EXCEPT !.exc = msg ]
Return(w, v)  == [ w EXCEPT !.ret = v ]

(***************************************************************************)
(* StringParser::Init                                                      *)
(***************************************************************************)
Init(w) ==
    [ w EXCEPT !.gcodeLineEnd = 0,
               !.commandLength = 0,
               !.readPointer = -1,
               !.hadLineNumber = FALSE,
               !.hadChecksum = FALSE,
               !.computedChecksum = 0,
               !.bufferState = "parseNotStarted",
               !.commandIndent = 0 ]

AddToChecksum(w, c) ==
    [ w EXCEPT !.computedChecksum = Xor8(w.computedChecksum, Ord[c]) ]

\* (a variant that stores without looking at the capacity, to test the
\* properties of the full buffer)
StoreUnchecked(w, c) ==
    [ w EXCEPT !.computedChecksum = Xor8(w.computedChecksum, Ord[c]),
               !.buffer = [ i \in DOMAIN w.buffer \cup { w.gcodeLineEnd } |->
                              IF i = w.gcodeLineEnd THEN c ELSE w.buffer[i] ],
               !.gcodeLineEnd = w.gcodeLineEnd + 1 ]

StoreAndAddToChecksum(w, c) ==
    LET x == [ w EXCEPT !.computedChecksum = Xor8(w.computedChecksum, Ord[c]) ]
    IN  IF x.gcodeLineEnd < BufSize
        THEN [ x EXCEPT !.buffer[x.gcodeLineEnd] = c,
                        !.gcodeLineEnd = x.gcodeLineEnd + 1 ]
        ELSE x

(***************************************************************************)
(* MachineState: the block stack.  blockStates[0 .. indentLevel] are the   *)
(* frames in use; CurrentBlockState is blockStates[indentLevel].           *)
(***************************************************************************)
CurrentBlockState(w) == w.blockStates[w.indentLevel + 1]
SetCurrentBlockState(w, b) == [ w EXCEPT !.blockStates[w.indentLevel + 1] = b ]
CreateBlock(w) == [ w EXCEPT !.indentLevel = w.indentLevel + 1,
                             !.blockStates = Append(w.blockStates, PlainBlock) ]
EndBlock(w) == IF w.indentLevel > 0
               THEN [ w EXCEPT !.indentLevel = w.indentLevel - 1,
                               !.blockStates = SubSeq(w.blockStates, 1, w.indentLevel) ]
               ELSE w

\* gb.RestartFrom(pos): the file reader is repositioned at pos
RestartFrom(w, pos) == [ w EXCEPT !.filePosition = pos, !.ev.restartedFrom = pos ]

\* fileState.GetPosition() - fileInput->BytesCached() is the number of bytes
\* of the file that have been handed to Put.
GetFilePosition(w) ==
    IF w.doingFile THEN w.filePosition - w.commandLength + w.commandStart
    ELSE -1


\* What one call did, for the observer: the handler a line was dispatched
\* to, whether DecodeCommand ran, whether the file reader was repositioned.
NoEvents == [ handler |-> "", decoded |-> FALSE, restartedFrom |-> -1 ]

(***************************************************************************)
(* StringParser::DecodeCommand                                             *)
(***************************************************************************)
\* the command number's digits from position p on: << value, next position >>
RECURSIVE ReadCommandDigits(_, _, _)
ReadCommandDigits(w, p, acc) ==
    IF isDigit(BufAt(w, p))
    THEN ReadCommandDigits(w, p + 1, (10 * acc) + DigitVal(BufAt(w, p)))
    ELSE << acc, p >>

\* The scan for the end of the command: a G or M that follows a space or
\* tab outside quotes starts the next command.
RECURSIVE FindCommandEnd(_, _, _, _)
FindCommandEnd(w, p, inQuotes, primed) ==
    IF ~(p < w.gcodeLineEnd) THEN p
    ELSE LET c == BufAt(w, p)
         IN  IF c = "\"" THEN FindCommandEnd(w, p + 1, ~inQuotes, FALSE)
             ELSE IF ~inQuotes
             THEN IF primed /\ toUpper(c) \in { "G", "M" } THEN p
                  ELSE FindCommandEnd(w, p + 1, inQuotes, c \in { " ", TAB })
             ELSE FindCommandEnd(w, p + 1, inQuotes, primed)

\* strchr(reprap.GetGCodes().GetAxisLetters(), cl) != nullptr
IsAxisLetter(w, cl) == cl \in w.axisLetters \/ cl = NUL

DecodeCommand(w) ==
    LET cl == toUpper(BufAt(w, w.commandStart))
        ready(x) == [ x EXCEPT !.bufferState = "ready", !.ev.decoded = TRUE ]
    IN  IF cl \in { "G", "M", "T" }
        THEN LET p0 == w.commandStart + 1
                 negative == BufAt(w, p0) = "-"
                 p1 == IF negative THEN p0 + 1 ELSE p0
                 hasNumber == isDigit(BufAt(w, p1))
                 num == ReadCommandDigits(w, p1, 0)
                 p2 == IF hasNumber THEN num[2] ELSE p1
                 hasDot == hasNumber /\ BufAt(w, p2) = "."
                 p3 == IF hasDot THEN p2 + 1 ELSE p2
                 hasFraction == hasDot /\ isDigit(BufAt(w, p3))
                 p4 == IF hasFraction THEN p3 + 1 ELSE p3
             IN  ready([ w EXCEPT
                     !.commandLetter = cl,
                     !.hasCommandNumber = hasNumber,
                     !.commandNumber = IF hasNumber
                                       THEN (IF negative THEN 0 - num[1] ELSE num[1])
                                       ELSE -1,
                     !.commandFraction = IF hasFraction THEN DigitVal(BufAt(w, p3)) ELSE -1,
                     !.parameterStart = p4,
                     !.commandEnd = FindCommandEnd(w, p4, FALSE, FALSE) ])
        ELSE IF /\ w.hasCommandNumber
                /\ w.commandLetter = "G"
                /\ w.commandNumber <= 3
                /\ \/ IsAxisLetter(w, cl)
                   \/ (cl \in { "I", "J" } /\ w.commandNumber >= 2)
                /\ w.machineTypeCnc
        THEN \* Fanuc-style: repeat the existing G0/G1/G2/G3 command
             ready([ w EXCEPT !.commandFraction = -1,
                              !.parameterStart = w.commandStart,
                              !.commandEnd = w.gcodeLineEnd ])
        ELSE \* bad command
             ready([ w EXCEPT !.commandLetter = cl,
                              !.hasCommandNumber = FALSE,
                              !.commandNumber = -1,
                              !.commandFraction = -1,
                              !.parameterStart = w.commandStart,
                              !.commandEnd = w.gcodeLineEnd ])

(***************************************************************************)
(* The block controller                                                    *)
(***************************************************************************)
RECURSIVE CreateBlocks(_)
CreateBlocks(w) ==
    IF w.indentLevel < w.commandIndent THEN CreateBlocks(CreateBlock(w)) ELSE w

\* EndBlocks: << state, TRUE when nothing more is to be processed on this line >>
RECURSIVE EndBlocks(_)
EndBlocks(w) ==
    IF w.indentLevel > w.commandIndent
    THEN LET x == EndBlock(w)
         IN  IF CurrentBlockState(x).kind = "loop"
             THEN << RestartFrom([ x EXCEPT !.lineNumber = CurrentBlockState(x).lineNumber ],
                                 CurrentBlockState(x).filePos),
                     TRUE >>
             ELSE EndBlocks(x)
    ELSE << w, FALSE >>

\* StringStartsWith(&gb.buffer[from], word)
StringStartsWith(w, from, word) ==
    \A j \in 1 .. Len(word) : MemoryAt(w, from + j - 1) = word[j]

\* The condition evaluator.  The code's EvaluateCondition raises whatever
\* the condition; the evaluator "literal" is the delegate the specification
\* leaves to the implementer, here one that reads the word after the keyword
\* as the truth value it spells.
RECURSIVE SkipBlanks(_, _)
SkipBlanks(w, p) == IF BufAt(w, p) \in { " ", TAB } THEN SkipBlanks(w, p + 1) ELSE p

LiteralCondition(w, keyword) ==
    LET p == SkipBlanks(w, w.commandIndent + Len(keyword))
        ends(q) == BufAt(w, q) \in { NUL, " ", TAB }
    IN  IF StringStartsWith(w, p, << "t","r","u","e" >>) /\ ends(p + 4) THEN "true"
        ELSE IF StringStartsWith(w, p, << "f","a","l","s","e" >>) /\ ends(p + 5) THEN "false"
        ELSE "raise"

\* (a variant that finds every condition true, to test the properties of the
\* evaluator that raises)
ConditionAlwaysTrue(w, keyword) == "true"

EvaluateCondition(w, keyword) ==
    IF w.evaluator = "literal" THEN LiteralCondition(w, keyword) ELSE "raise"

ProcessIfCommand(w) ==
    LET cond == EvaluateCondition(w, << "i","f" >>)
    IN  IF cond = "raise" THEN Raise(w, "Failed to evaluate condition after 'if'")
        ELSE IF cond = "true" THEN SetCurrentBlockState(w, IfTrueBlock)
        ELSE [ SetCurrentBlockState(w, IfFalseBlock) EXCEPT !.indentToSkipTo = w.indentLevel ]

ProcessElseCommand(w, skippedIfFalse) ==
    IF skippedIfFalse THEN SetCurrentBlockState(w, PlainBlock)
    ELSE IF CurrentBlockState(w).kind = "ifTrue"
    THEN [ w EXCEPT !.indentToSkipTo = w.indentLevel ]
    ELSE Raise(w, "'else' did not follow 'if")

ProcessWhileCommand(w) ==
    LET cond == EvaluateCondition(w, << "w","h","i","l","e" >>)
    IN  IF cond = "raise" THEN Raise(w, "Failed to evaluate condition after 'while'")
        ELSE IF cond = "true"
        THEN SetCurrentBlockState(w, LoopBlock(GetFilePosition(w), w.lineNumber))
        ELSE [ w EXCEPT !.indentToSkipTo = w.indentLevel ]

RECURSIVE ProcessBreakCommand(_)
ProcessBreakCommand(w) ==
    IF w.indentLevel = 0 THEN Raise(w, "'break' was not inside a loop")
    ELSE LET x == EndBlock(w)
         IN  IF CurrentBlockState(x).kind # "loop" THEN ProcessBreakCommand(x)
             ELSE SetCurrentBlockState(x, PlainBlock)

ProcessVarCommand(w) == Raise(w, "'var' not implemented yet")

\* the number of lower-case letters at the start of the buffer, 6 at most
RECURSIVE CountLowerCase(_, _)
CountLowerCase(w, i) ==
    IF BufAt(w, i) \in LowerSet
    THEN (IF i + 1 = 6 THEN 6 ELSE CountLowerCase(w, i + 1))
    ELSE i

\* ProcessConditionalGCode: << state, TRUE when the line was a language command >>
ProcessConditionalGCode(w, skippedIfFalse) ==
    LET blocks == IF w.commandIndent > w.indentLevel THEN << CreateBlocks(w), FALSE >>
                  ELSE IF w.commandIndent < w.indentLevel THEN EndBlocks(w)
                  ELSE << w, FALSE >>
        x == blocks[1]
        i == CountLowerCase(x, 0)
        at == x.commandIndent
        call(h, y) == << [ y EXCEPT !.ev.handler = h ], TRUE >>
        named(h)  == [ x EXCEPT !.ev.handler = h ]
    IN  IF blocks[2] THEN << x, TRUE >>
        ELSE IF i >= 2 /\ i < 6 /\ BufAt(x, i) \in { NUL, " ", TAB }
        THEN CASE i = 2 /\ StringStartsWith(x, at, << "i","f" >>) ->
                    << ProcessIfCommand(named("if")), TRUE >>
               [] i = 3 /\ StringStartsWith(x, at, << "v","a","r" >>) ->
                    << ProcessVarCommand(named("var")), TRUE >>
               [] i = 4 /\ StringStartsWith(x, at, << "e","l","s","e" >>) ->
                    << ProcessElseCommand(named("else"), skippedIfFalse), TRUE >>
               [] i = 5 /\ StringStartsWith(x, at, << "w","h","i","l","e" >>) ->
                    << ProcessWhileCommand(named("while")), TRUE >>
               [] i = 5 /\ StringStartsWith(x, at, << "b","r","e","a","k" >>) ->
                    << ProcessBreakCommand(named("break")), TRUE >>
               [] OTHER -> << x, FALSE >>
        ELSE << x, FALSE >>

(***************************************************************************)
(* StringParser::LineFinished                                              *)
(***************************************************************************)
\* SafeSnprintf(gb.buffer, ARRAY_SIZE(gb.buffer), "M998 P%u", n)
ResendRequest(n) ==
    LET text == << "M","9","9","8"," ","P" >> \o DecimalText(n)
    IN  Append(SubSeq(text, 1, IF Len(text) < BufSize THEN Len(text) ELSE BufSize - 1), NUL)

\* (a variant that never skips, to test the properties of skipping)
NeverSkipping(w) == FALSE

\* the line lies inside a block that is being skipped
ContinueSkipping(w) == w.indentToSkipTo < w.commandIndent

\* (a variant that never asks for a checksum, to test the properties of dropping)
ChecksumNeverMissing(w) == FALSE

\* a checksum was required at the outermost level and the line has none
ChecksumMissing(w) == w.checksumRequired /\ ~w.hadChecksum /\ w.previousNull

LineFinished(w) ==
    IF w.gcodeLineEnd = 0 THEN Return(Init(w), FALSE)                \* empty line
    ELSE IF w.gcodeLineEnd = BufSize THEN Return(Init(w), FALSE)     \* length overflow
    ELSE
    LET w1 == [ w EXCEPT !.buffer[w.gcodeLineEnd] = NUL ]
        badChecksum == w.hadChecksum /\ w.computedChecksum # w.declaredChecksum
        missingChecksum == ChecksumMissing(w)
    IN  IF badChecksum /\ ~w.hadLineNumber THEN Return(Init(w1), FALSE)
        ELSE IF ~badChecksum /\ missingChecksum THEN Return(Init(w1), FALSE)
        ELSE
        LET w2 == IF badChecksum
                  THEN [ w1 EXCEPT !.buffer =
                             WriteAt(w1.buffer, 0, ResendRequest(w1.receivedLineNumber)) ]
                  ELSE w1
            w3 == [ w2 EXCEPT !.lineNumber = IF w2.hadLineNumber
                                             THEN w2.receivedLineNumber
                                             ELSE U32(w2.lineNumber + 1) ]
            decode(x) == Return(DecodeCommand([ x EXCEPT !.commandStart = 0 ]), TRUE)
        IN  IF ~w3.doingFile THEN decode(w3)
            ELSE IF ContinueSkipping(w3)
            THEN Return(Init(w3), FALSE)
            ELSE
            LET ending == w3.indentToSkipTo # NoIndentSkip
                            /\ w3.indentToSkipTo >= w3.commandIndent
                same == ending /\ w3.indentToSkipTo = w3.commandIndent
                skippedIfFalse == same /\ CurrentBlockState(w3).kind = "ifFalse"
                w4 == IF same THEN SetCurrentBlockState(w3, PlainBlock) ELSE w3
                w5 == IF ending THEN [ w4 EXCEPT !.indentToSkipTo = NoIndentSkip ] ELSE w4
                pc == ProcessConditionalGCode(w5, skippedIfFalse)
            IN  IF pc[1].exc # "" THEN pc[1]
                ELSE IF pc[2] THEN Return(Init(pc[1]), FALSE)
                ELSE decode(pc[1])

(***************************************************************************)
(* StringParser::Put(char)                                                 *)
(***************************************************************************)
RECURSIVE PutChar(_, _)
PutChar(w, c) ==
    CASE w.bufferState = "parseNotStarted" ->
            IF c \in { "N", "n" }
            THEN [ AddToChecksum(w, c) EXCEPT !.hadLineNumber = TRUE,
                                              !.bufferState = "parsingLineNumber",
                                              !.receivedLineNumber = 0 ]
            ELSE IF c \in { " ", TAB }
            THEN [ AddToChecksum(w, c) EXCEPT !.commandIndent = w.commandIndent + 1 ]
            ELSE PutChar([ w EXCEPT !.bufferState = "parsingGCode", !.commandStart = 0 ], c)
      [] w.bufferState = "parsingLineNumber" ->
            IF isDigit(c)
            THEN [ AddToChecksum(w, c) EXCEPT
                       !.receivedLineNumber = U32((10 * w.receivedLineNumber) + DigitVal(c)) ]
            ELSE PutChar([ w EXCEPT !.bufferState = "parsingWhitespace" ], c)
      [] w.bufferState = "parsingWhitespace" ->
            IF c \in { " ", TAB } THEN AddToChecksum(w, c)
            ELSE PutChar([ w EXCEPT !.bufferState = "parsingGCode", !.commandStart = 0 ], c)
      [] w.bufferState = "parsingGCode" ->
            CASE c = "*"  -> [ w EXCEPT !.declaredChecksum = 0,
                                        !.hadChecksum = TRUE,
                                        !.bufferState = "parsingChecksum" ]
              [] c = ";"  -> [ w EXCEPT !.bufferState = "discarding" ]
              [] c = "("  -> [ AddToChecksum(w, c) EXCEPT
                                   !.bufferState = "parsingBracketedComment" ]
              [] c = "\"" -> [ StoreAndAddToChecksum(w, c) EXCEPT
                                   !.bufferState = "parsingQuotedString" ]
              [] OTHER    -> StoreAndAddToChecksum(w, c)
      [] w.bufferState = "parsingBracketedComment" ->
            IF c = ")" THEN [ AddToChecksum(w, c) EXCEPT !.bufferState = "parsingGCode" ]
            ELSE AddToChecksum(w, c)
      [] w.bufferState = "parsingQuotedString" ->
            IF c = "\"" THEN [ StoreAndAddToChecksum(w, c) EXCEPT !.bufferState = "parsingGCode" ]
            ELSE StoreAndAddToChecksum(w, c)
      [] w.bufferState = "parsingChecksum" ->
            IF isDigit(c)
            THEN [ w EXCEPT !.declaredChecksum = U8((10 * w.declaredChecksum) + DigitVal(c)) ]
            ELSE PutChar([ w EXCEPT !.bufferState = "discarding" ], c)
      [] OTHER -> w                                                     \* discarding

\* (a variant without the test for the framing-error byte, to test the
\* properties of the resynchronisation)
PutWithoutResync(w, c) ==
    LET w1 == IF c # NUL THEN [ w EXCEPT !.commandLength = w.commandLength + 1 ] ELSE w
    IN  IF c \in { NUL, LF, CR } THEN LineFinished(w1)
        ELSE Return(PutChar(w1, c), FALSE)

Put(w, c) ==
    LET w1 == IF c # NUL THEN [ w EXCEPT !.commandLength = w.commandLength + 1 ] ELSE w
    IN  IF c \in { NUL, LF, CR } THEN LineFinished(w1)
        ELSE LET w2 == IF c = DEL /\ w1.bufferState # "discarding"
                       THEN [ w1 EXCEPT !.gcodeLineEnd = 0, !.bufferState = "discarding" ]
                       ELSE w1
             IN  Return(PutChar(w2, c), FALSE)

(***************************************************************************)
(* StringParser::SetFinished                                               *)
(***************************************************************************)
\* (a variant that starts the next command one byte late, to test the
\* properties of the traversal)
SetFinishedLate(w) ==
    IF w.commandEnd < w.gcodeLineEnd
    THEN DecodeCommand([ w EXCEPT !.commandStart = w.commandEnd + 1 ])
    ELSE Init([ w EXCEPT !.g53Active = FALSE ])

SetFinished(w) ==
    IF w.commandEnd < w.gcodeLineEnd
    THEN DecodeCommand([ w EXCEPT !.commandStart = w.commandEnd ])
    ELSE Init([ w EXCEPT !.g53Active = FALSE ])


(***************************************************************************)
(* StringParser::Seen                                                      *)
(***************************************************************************)
RECURSIVE SeenScan(_, _, _, _, _)
SeenScan(w, c, p, inQuotes, inBrackets) ==
    IF ~(p < w.commandEnd) THEN Return([ w EXCEPT !.readPointer = -1 ], FALSE)
    ELSE LET b == BufAt(w, p)
         IN  IF b = "\"" THEN SeenScan(w, c, p + 1, ~inQuotes, inBrackets)
             ELSE IF inQuotes THEN SeenScan(w, c, p + 1, inQuotes, inBrackets)
             ELSE IF /\ inBrackets = 0
                     /\ toUpper(b) = c
                     /\ (c # "E" \/ p = w.parameterStart \/ ~isDigit(BufAt(w, p - 1)))
             THEN Return([ w EXCEPT !.readPointer = p + 1 ], TRUE)
             ELSE IF b = "{" THEN SeenScan(w, c, p + 1, inQuotes, inBrackets + 1)
             ELSE IF b = "}" /\ inBrackets # 0
             THEN SeenScan(w, c, p + 1, inQuotes, inBrackets - 1)
             ELSE SeenScan(w, c, p + 1, inQuotes, inBrackets)

\* (a variant that scans the command from its first character, to test the
\* properties of the scan)
SeenFromCommandStart(w, c) == SeenScan(w, c, w.commandStart, FALSE, 0)

Seen(w, c) == SeenScan(w, c, w.parameterStart, FALSE, 0)

(***************************************************************************)
(* The library conversions SafeStrtoul, SafeStrtol and SafeStrtof, as the  *)
(* C library's strtoul, strtol and strtof convert: blanks are skipped, a   *)
(* sign is taken, the digits are read; with no digit nothing is consumed.  *)
(***************************************************************************)
HexSeq == << "0","1","2","3","4","5","6","7","8","9","A","B","C","D","E","F" >>
IsDigitIn(c, base) == IF base = 16 THEN toUpper(c) \in Range(HexSeq) ELSE isDigit(c)
DigitIn(c) == IndexOf(HexSeq, toUpper(c)) - 1
IsSpace(c) == c \in { " ", TAB, LF, CR }

RECURSIVE SkipSpace(_, _)
SkipSpace(w, p) == IF IsSpace(BufAt(w, p)) THEN SkipSpace(w, p + 1) ELSE p

\* the digits from p on in the base: << value, next position >>
RECURSIVE ReadDigits(_, _, _, _)
ReadDigits(w, p, base, acc) ==
    IF IsDigitIn(BufAt(w, p), base)
    THEN ReadDigits(w, p + 1, base, (base * acc) + DigitIn(BufAt(w, p)))
    ELSE << acc, p >>

\* << value, end position, negative >> of the integer text at p
ParseInteger(w, p, base) ==
    LET p1 == SkipSpace(w, p)
        neg == BufAt(w, p1) = "-"
        p2 == IF BufAt(w, p1) \in { "-", "+" } THEN p1 + 1 ELSE p1
        p3 == IF base = 16 /\ BufAt(w, p2) = "0" /\ toUpper(BufAt(w, p2 + 1)) = "X"
                  /\ IsDigitIn(BufAt(w, p2 + 2), 16)
              THEN p2 + 2 ELSE p2
        d == ReadDigits(w, p3, base, 0)
    IN  IF d[2] = p3 THEN << 0, p, FALSE >> ELSE << d[1], d[2], neg >>

SafeStrtoul(w, p, base) ==
    LET r == ParseInteger(w, p, base)
    IN  << IF r[3] THEN U32(0 - r[1]) ELSE U32(r[1]), r[2] >>

SafeStrtol(w, p) ==
    LET r == ParseInteger(w, p, 10)
    IN  << IF r[3] THEN 0 - r[1] ELSE r[1], r[2] >>

\* A float is m * 10^e, with m holding no trailing zero.
RECURSIVE Normalised(_, _)
Normalised(m, e) == IF m = 0 THEN [ type |-> "float", m |-> 0, e |-> 0 ]
                    ELSE IF m % 10 = 0 THEN Normalised(m \div 10, e + 1)
                    ELSE [ type |-> "float", m |-> m, e |-> e ]

SafeStrtof(w, p) ==
    LET p1 == SkipSpace(w, p)
        neg == BufAt(w, p1) = "-"
        p2 == IF BufAt(w, p1) \in { "-", "+" } THEN p1 + 1 ELSE p1
        int == ReadDigits(w, p2, 10, 0)
        hasDot == BufAt(w, int[2]) = "."
        frac == IF hasDot THEN ReadDigits(w, int[2] + 1, 10, int[1]) ELSE int
        fracDigits == IF hasDot THEN frac[2] - (int[2] + 1) ELSE 0
        anyDigit == int[2] > p2 \/ fracDigits > 0
        p3 == frac[2]
        hasE == toUpper(BufAt(w, p3)) = "E"
        eneg == BufAt(w, p3 + 1) = "-"
        p4 == IF BufAt(w, p3 + 1) \in { "-", "+" } THEN p3 + 2 ELSE p3 + 1
        ex == ReadDigits(w, p4, 10, 0)
        exp == IF hasE /\ ex[2] > p4 THEN (IF eneg THEN 0 - ex[1] ELSE ex[1]) ELSE 0
        n == Normalised(frac[1], exp - fracDigits)
    IN  IF ~anyDigit THEN Normalised(0, 0)
        ELSE IF neg THEN [ n EXCEPT !.m = 0 - n.m ] ELSE n

(***************************************************************************)
(* Expressions: {variable-name}, resolved by the object model.             *)
(***************************************************************************)
MaxVariableNameLength == 100

\* reprap.GetObjectValue: the values the object model of this model holds
ObjectModel == [ name \in { << "f" >>, << "i" >>, << "u" >>, << "n" >>, << "s" >>, << "b" >> } |->
    CASE name = << "f" >> -> [ type |-> "float",  m |-> 25, e |-> -1 ]
      [] name = << "i" >> -> [ type |-> "int32",  v |-> 7 ]
      [] name = << "n" >> -> [ type |-> "int32",  v |-> -3 ]
      [] name = << "u" >> -> [ type |-> "uint32", v |-> 9 ]
      [] name = << "s" >> -> [ type |-> "string", v |-> << "o", "k" >> ]
      [] name = << "b" >> -> [ type |-> "bool",   v |-> TRUE ] ]

GetObjectValue(name) ==
    IF name \in DOMAIN ObjectModel THEN ObjectModel[name] ELSE [ type |-> "none" ]

\* the end of the variable name that starts at p
RECURSIVE NameEnd(_, _, _)
NameEnd(w, p, numBrackets) ==
    LET c == BufAt(w, p)
    IN  IF isAlpha(c) \/ isDigit(c) \/ c \in { "_", ".", "(" } \/ (c = ")" /\ numBrackets # 0)
        THEN NameEnd(w, p + 1, IF c = "(" THEN numBrackets + 1
                               ELSE IF c = ")" THEN numBrackets - 1 ELSE numBrackets)
        ELSE p

BufText(w, from, to) == [ k \in 1 .. (to - from) |-> BufAt(w, from + k - 1) ]

\* EvaluateExpression: the state, with ret the value, or raised
EvaluateExpression(w) ==
    LET w1 == [ w EXCEPT !.readPointer = w.readPointer + 1 ]       \* skip the '{'
        start == w1.readPointer
        stop == NameEnd(w1, start, 0)
        w2 == [ w1 EXCEPT !.readPointer = stop ]
        val == GetObjectValue(BufText(w1, start, stop))
    IN  IF ~isAlpha(BufAt(w1, start)) THEN Raise(w1, "expected variable name")
        ELSE IF stop - start > MaxVariableNameLength THEN Raise(w2, "variable name too long")
        ELSE IF val.type = "none" THEN Raise(w2, "unknown variable")
        ELSE IF BufAt(w2, stop) # "}" THEN Raise(w2, "expected '}'")
        ELSE Return([ w2 EXCEPT !.readPointer = stop + 1 ], val)

(***************************************************************************)
(* The value readers                                                       *)
(***************************************************************************)
ReadFloatValue(w) ==
    LET w1 == [ w EXCEPT !.readPointer = w.readPointer + 1 ]
    IN  IF BufAt(w1, w1.readPointer) = "{"
        THEN LET x == EvaluateExpression([ w1 EXCEPT !.readPointer = w1.readPointer + 1 ])
             IN  IF x.exc # "" THEN x
                 ELSE IF x.ret.type = "float" THEN x
                 ELSE IF x.ret.type \in { "int32", "uint32" }
                 THEN Return(x, Normalised(x.ret.v, 0))
                 ELSE Raise(x, "expected float value")
        ELSE Return(w1, SafeStrtof(w1, w1.readPointer))

ReadUIValue(w) ==
    IF BufAt(w, w.readPointer) = "{"
    THEN LET x == EvaluateExpression(w)
         IN  IF x.exc # "" THEN x
             ELSE IF x.ret.type = "uint32" THEN Return(x, x.ret.v)
             ELSE IF x.ret.type = "int32"
             THEN (IF x.ret.v >= 0 THEN Return(x, x.ret.v)
                   ELSE Raise(x, "value must be non-negative"))
             ELSE Raise(x, "expected non-negative integer value")
    ELSE LET quoted == BufAt(w, w.readPointer) = "\""
             p1 == IF quoted THEN w.readPointer + 1 ELSE w.readPointer
             hexX == quoted /\ BufAt(w, p1) \in { "x", "X" }
             hex0 == quoted /\ BufAt(w, p1) = "0" /\ BufAt(w, p1 + 1) \in { "x", "X" }
             p2 == IF hexX THEN p1 + 1 ELSE IF hex0 THEN p1 + 2 ELSE p1
             r == SafeStrtoul(w, p2, IF hexX \/ hex0 THEN 16 ELSE 10)
         IN  Return([ w EXCEPT !.readPointer = r[2] + (IF quoted THEN 1 ELSE 0) ], r[1])

ReadIValue(w) ==
    IF BufAt(w, w.readPointer) = "{"
    THEN LET x == EvaluateExpression(w)
         IN  IF x.exc # "" THEN x
             ELSE IF x.ret.type \in { "int32", "uint32" } THEN Return(x, x.ret.v)
             ELSE Raise(x, "expected integer value")
    ELSE LET r == SafeStrtol(w, w.readPointer)
         IN  Return([ w EXCEPT !.readPointer = r[2] ], r[1])

\* y is the state after the number behind the '.', v1 the number before it
LocalDriver(y, v1) ==
    IF y.exc # "" THEN y ELSE Return(y, [ localDriver |-> y.ret, boardAddress |-> v1 ])

\* x is the state after the first number
DriverIdFrom(x) ==
    IF x.exc # "" THEN x
    ELSE IF ~x.supportCanExpansion
    THEN Return(x, [ localDriver |-> x.ret, boardAddress |-> 0 ])
    ELSE IF BufAt(x, x.readPointer) = "."
    THEN LocalDriver(ReadUIValue([ x EXCEPT !.readPointer = x.readPointer + 1 ]), x.ret)
    ELSE Return(x, [ localDriver |-> x.ret, boardAddress |-> 0 ])

ReadDriverIdValue(w) == DriverIdFrom(ReadUIValue(w))

InternalError(w) == Raise(w, "internal error")

\* the value read, and readPointer = -1 (nothing is reset when the reader raised)
Done(x) == IF x.exc # "" THEN x ELSE [ x EXCEPT !.readPointer = -1 ]

GetFValue(w)   == IF w.readPointer > 0 THEN Done(ReadFloatValue(w)) ELSE InternalError(w)
GetIValue(w)   == IF w.readPointer > 0 THEN Done(ReadIValue(w)) ELSE InternalError(w)
GetUIValue(w)  == IF w.readPointer > 0 THEN Done(ReadUIValue(w)) ELSE InternalError(w)
GetDriverId(w) == IF w.readPointer > 0 THEN Done(ReadDriverIdValue(w)) ELSE InternalError(w)


(***************************************************************************)
(* The array getters.  returnedLength comes in as the capacity of arr;     *)
(* the value returned is the written part of arr with returnedLength.      *)
(***************************************************************************)
ReadElement(w, kind) ==
    CASE kind = "float"    -> ReadFloatValue(w)
      [] kind = "int"      -> ReadIValue(w)
      [] kind = "unsigned" -> ReadUIValue(w)
      [] kind = "driver"   -> ReadDriverIdValue(w)

\* the loop of an array getter: the state, with ret the elements read
RECURSIVE ReadList(_, _, _, _)
\* x is the state after the element was read
NextElement(x, kind, returnedLength, arr) ==
    IF x.exc # "" THEN x
    ELSE IF BufAt(x, x.readPointer) # ":" THEN Return(x, Append(arr, x.ret))
    ELSE ReadList([ x EXCEPT !.readPointer = x.readPointer + 1 ],
                  kind, returnedLength, Append(arr, x.ret))

ReadList(w, kind, returnedLength, arr) ==
    IF Len(arr) >= returnedLength THEN Raise(w, "array too long")
    ELSE NextElement(ReadElement(w, kind), kind, returnedLength, arr)

\* x is the state after the loop: the padding of a single element
PadArray(x, returnedLength, doPad) ==
    IF x.exc # "" THEN x
    ELSE IF doPad /\ Len(x.ret) = 1 /\ returnedLength > 1
    THEN Done(Return(x, [ arr |-> [ k \in 1 .. returnedLength |-> x.ret[1] ],
                          returnedLength |-> returnedLength ]))
    ELSE Done(Return(x, [ arr |-> x.ret, returnedLength |-> Len(x.ret) ]))

GetArray(w, kind, returnedLength, doPad) ==
    IF w.readPointer > 0
    THEN PadArray(ReadList(w, kind, returnedLength, << >>), returnedLength, doPad)
    ELSE InternalError(w)

GetFloatArray(w, returnedLength, doPad)    == GetArray(w, "float", returnedLength, doPad)
GetIntArray(w, returnedLength, doPad)      == GetArray(w, "int", returnedLength, doPad)
GetUnsignedArray(w, returnedLength, doPad) == GetArray(w, "unsigned", returnedLength, doPad)
GetDriverIdArray(w, returnedLength)        == GetArray(w, "driver", returnedLength, FALSE)

(***************************************************************************)
(* The string getters                                                      *)
(***************************************************************************)
\* printf("%d") of an int32, and of a float with the given decimals
SignedText(n) == IF n < 0 THEN << "-" >> \o DecimalText(0 - n) ELSE DecimalText(n)

RECURSIVE Pow10(_)
Pow10(k) == IF k = 0 THEN 1 ELSE 10 * Pow10(k - 1)

RECURSIVE PadLeft(_, _)
PadLeft(text, n) == IF Len(text) >= n THEN text ELSE PadLeft(<< "0" >> \o text, n)

\* "%.<decimals>f" of m * 10^e, rounded half up
FloatText(f, decimals) ==
    LET mag == IF f.m < 0 THEN 0 - f.m ELSE f.m
        shift == f.e + decimals
        scaled == IF shift >= 0 THEN mag * Pow10(shift)
                  ELSE (mag + (Pow10(0 - shift) \div 2)) \div Pow10(0 - shift)
        whole == DecimalText(scaled \div Pow10(decimals))
        part == PadLeft(DecimalText(scaled % Pow10(decimals)), decimals)
    IN  (IF f.m < 0 THEN << "-" >> ELSE << >>) \o whole \o << "." >> \o part

\* GetStringExpression: the state, with ret the string, or raised
GetStringExpression(w) ==
    LET x == EvaluateExpression(w)
        v == x.ret
    IN  IF x.exc # "" THEN x
        ELSE CASE v.type = "string" -> Return(x, v.v)
               [] v.type = "float"  -> Return(x, FloatText(v, 1))
               [] v.type = "uint32" -> Return(x, DecimalText(v.v))
               [] v.type = "int32"  -> Return(x, SignedText(v.v))
               [] v.type = "bool"   -> Return(x, IF v.v THEN << "t","r","u","e" >>
                                                 ELSE << "f","a","l","s","e" >>)
               [] OTHER -> Raise(x, "string value expected")

\* The loop of InternalGetQuotedString, readPointer behind the opening quote.
RECURSIVE QuotedLoop(_, _)
QuotedLoop(w, str) ==
    LET c == BufAt(w, w.readPointer)
        w1 == [ w EXCEPT !.readPointer = w.readPointer + 1 ]
        n == BufAt(w1, w1.readPointer)
        w2 == [ w1 EXCEPT !.readPointer = w1.readPointer + 1 ]
    IN  IF IsControl(c) THEN Raise(w1, "control character in string")
        ELSE IF c = "\""
        THEN (IF n # "\"" THEN Return(w2, str) ELSE QuotedLoop(w2, Append(str, c)))
        ELSE IF c = "'"
        THEN (IF isAlpha(n) THEN QuotedLoop(w2, Append(str, toLower(n)))
              ELSE IF n = c THEN QuotedLoop(w2, Append(str, c))
              ELSE QuotedLoop(w1, Append(str, c)))
        ELSE QuotedLoop(w1, Append(str, c))

InternalGetQuotedString(w) ==
    QuotedLoop([ w EXCEPT !.readPointer = w.readPointer + 1 ], << >>)

GetQuotedString(w) ==
    IF w.readPointer > 0
    THEN CASE BufAt(w, w.readPointer) = "\"" -> InternalGetQuotedString(w)
           [] BufAt(w, w.readPointer) = "{"  -> GetStringExpression(w)
           [] OTHER -> Raise(w, "expected string expression")
    ELSE InternalError(w)

RECURSIVE StripTrailingSpaces(_)
StripTrailingSpaces(str) ==
    IF Len(str) > 0 /\ str[Len(str)] = " "
    THEN StripTrailingSpaces(SubSeq(str, 1, Len(str) - 1)) ELSE str

\* the rest of the line up to a control character, appended to str
RECURSIVE RestOfLine(_, _)
RestOfLine(w, str) ==
    LET c == BufAt(w, w.readPointer)
        w1 == [ w EXCEPT !.readPointer = w.readPointer + 1 ]
    IN  IF IsControl(c) THEN Return(w1, str) ELSE RestOfLine(w1, Append(str, c))

\* c is the state after the rest of the line was appended
StrippedString(c, str, allowEmpty) ==
    IF ~allowEmpty /\ str = << >> THEN Raise(c, "non-empty string expected")
    ELSE Return(c, str)

\* b is the state after the quoted string and the expression, if any
UnquotedPart(b, allowEmpty) ==
    IF b.exc # "" THEN b
    ELSE StrippedString(RestOfLine([ b EXCEPT !.commandEnd = b.gcodeLineEnd ], b.ret),
                        StripTrailingSpaces(
                            RestOfLine([ b EXCEPT !.commandEnd = b.gcodeLineEnd ], b.ret).ret),
                        allowEmpty)

\* a is the state after the quoted string, if any
ExpressionPart(a, allowEmpty) ==
    IF a.exc # "" THEN a
    ELSE IF BufAt(a, a.readPointer) = "{" THEN UnquotedPart(GetStringExpression(a), allowEmpty)
    ELSE UnquotedPart(a, allowEmpty)

InternalGetPossiblyQuotedString(w, allowEmpty) ==
    IF BufAt(w, w.readPointer) = "\"" THEN ExpressionPart(InternalGetQuotedString(w), allowEmpty)
    ELSE ExpressionPart(Return(w, << >>), allowEmpty)

\* The call of InternalGetPossiblyQuotedString is followed by
\* THROW_INTERNAL_ERROR on every path.
ThenInternalError(x) == IF x.exc # "" THEN x ELSE InternalError(x)

GetPossiblyQuotedString(w) ==
    IF w.readPointer > 0
    THEN ThenInternalError(InternalGetPossiblyQuotedString(w, FALSE))
    ELSE InternalError(w)

RECURSIVE ReducedLoop(_, _)
ReducedLoop(w, str) ==
    LET c == BufAt(w, w.readPointer)
        w1 == [ w EXCEPT !.readPointer = w.readPointer + 1 ]
        n == BufAt(w1, w1.readPointer)
        w2 == [ w1 EXCEPT !.readPointer = w1.readPointer + 1 ]
    IN  IF c = "\""
        THEN (IF n # "\"" THEN Return(w2, str) ELSE ReducedLoop(w2, Append(str, c)))
        ELSE IF c \in { "_", "-", " " } THEN ReducedLoop(w1, str)
        ELSE IF IsControl(c) THEN Raise(w1, "control characer in string")
        ELSE ReducedLoop(w1, Append(str, toLower(c)))

GetReducedString(w) ==
    IF w.readPointer > 0
    THEN IF BufAt(w, w.readPointer) # "\"" THEN Raise(w, "string expected")
         ELSE ReducedLoop([ w EXCEPT !.readPointer = w.readPointer + 1 ], << >>)
    ELSE InternalError(w)

RECURSIVE SkipLeadingSpaces(_)
SkipLeadingSpaces(w) ==
    IF w.readPointer < w.commandEnd /\ BufAt(w, w.readPointer) \in { " ", TAB }
    THEN SkipLeadingSpaces([ w EXCEPT !.readPointer = w.readPointer + 1 ]) ELSE w

GetUnprecedentedString(w, allowEmpty) ==
    InternalGetPossiblyQuotedString(
        SkipLeadingSpaces([ w EXCEPT !.readPointer = w.parameterStart ]), allowEmpty)

(***************************************************************************)
(* StringParser::PrintCommand: the text written for the decoded command    *)
(***************************************************************************)
\* (a variant that leaves the fraction out, to test the properties of printing)
PrintCommandWithoutFraction(w) == << w.commandLetter >> \o SignedText(w.commandNumber)

PrintCommand(w) ==
    << w.commandLetter >> \o SignedText(w.commandNumber)
        \o (IF w.commandFraction >= 0 THEN << "." >> \o SignedText(w.commandFraction)
            ELSE << >>)

(***************************************************************************)
(* GetIPAddress and GetMacAddress                                          *)
(***************************************************************************)
\* the loop both share: n values read so far, p the position of the next
RECURSIVE ReadAddress(_, _, _, _, _, _)
\* r is what SafeStrtoul read at p
NextPart(w, p, vals, base, sep, count, r) ==
    \* v > 255 for the unsigned v: a negative pattern is a value above 2^31
    IF r[2] = p \/ r[1] > 255 \/ r[1] < 0 THEN << "invalid", vals >>
    ELSE IF BufAt(w, r[2]) # sep THEN << "end", Append(vals, r[1]) >>
    ELSE IF Len(vals) + 1 = count THEN << "invalid", Append(vals, r[1]) >>
    ELSE ReadAddress(w, r[2] + 1, Append(vals, r[1]), base, sep, count)

ReadAddress(w, p, vals, base, sep, count) ==
    NextPart(w, p, vals, base, sep, count, SafeStrtoul(w, p, base))

\* r is what the loop read
AddressFrom(x, r, count, msg) ==
    IF r[1] = "invalid" \/ Len(r[2]) # count THEN Raise(x, msg) ELSE Return(x, r[2])

GetAddress(w, base, sep, count, msg) ==
    IF w.readPointer <= 0 THEN InternalError(w)
    ELSE AddressFrom([ w EXCEPT !.readPointer = -1 ],
                     ReadAddress(w, w.readPointer, << >>, base, sep, count), count, msg)

GetIPAddress(w)  == GetAddress(w, 10, ".", 4, "invalid IP address")
GetMacAddress(w) == GetAddress(w, 16, ":", 6, "invalid MAC address")


(***************************************************************************)
(* The input.  A run either draws its lines one after the other from the   *)
(* set its source names, each ended by one of the three terminators, or    *)
(* reads a scripted file from its start.                                   *)
(***************************************************************************)
RECURSIVE XorAll(_)
XorAll(text) == IF text = << >> THEN 0 ELSE Xor8(Ord[Head(text)], XorAll(Tail(text)))

WithChecksum(text)    == text \o << "*" >> \o DecimalText(XorAll(text))
WithBadChecksum(text) == text \o << "*" >> \o DecimalText((XorAll(text) + 1) % 256)

Terminators == { NUL, LF, CR }

\* lines without a checksum: commands, comments, several commands on a line, a framing error
PlainLines ==
    { << "G", "1", " ", "X", "1" >>,
      << "n", "4", " ", "g", "2", "8" >>,
      << "G", "1", " ", "X", "1", " ", "G", "2", " ", "Y", "2", " ", "M", "3" >>,
      << "M", "1", "1", "7", " ", "\"", "a", " ", "G", "1", "\"", " ", "G", "4" >>,
      << "X", "1", " ", "G", "1", " ", "Y", "2" >>,
      << "T", "1", " ", "M", "3", " ", "T", "2" >>,
      << "G", "1", " ", "X", "1", "0", " ", "Y", "2", "0", " ", "Z", "3", "0", " ", "E", "4", "0", " ", "F", "5", "0", "0", "0" >>,
      << "G", "3", "8", ".", "2", " ", "X", "1" >>,
      << "G", "-", "1", ";", "c" >>,
      << " ", "G", "1", " ", "(", "c", ")", " ", "X", "2" >>,
      << "G", "1", DEL, "X" >>,
      << "N", "3" >>,
      << "G", "2", " ", "X", "1" >>,
      << "I", "5", " ", "J", "0" >>,
      << "(", "c", ")", " ", "G", "1" >>,
      << "N", "5", " ", "N", "6" >> }

\* the bodies of the lines that carry a checksum
Bodies ==
    { << "N", "5", " ", "G", "1", " ", "X", "1" >>,
      << "N", "1", "2", " ", "G", "1", " ", "X", "1", " ", "Y", "1", "0", " ", "G", "2" >>,
      << "N", "7", " ", "G" >>,
      << "G", "1", " ", "X", "1" >>,
      << "N", "9", " ", "(", "c", ")", " ", "G", "1", " ", "\"", "*", "\"", " ", "X", "1" >> }

\* lines whose parameters the getters read
ParamLines ==
    { << "G", "1", " ", "X", "2", "0", ".", "5", " ", "Y", "-", "3", " ", "E", "1", ".", "2" >>,
      << "G", "1", " ", "X", "1", ":", "2", ":", "3", ":", "4" >>,
      << "G", "1", " ", "X", "5" >>,
      << "G", "1", " ", "X", "1", "0", ":", "2", "0" >>,
      << "G", "1", " ", "X", "1", "E", "2", " ", "E", "3" >>,
      << "G", "1", "E", "5" >>,
      << "G", "1", " ", "X", TAB, "G", "2" >>,
      << "M", "5", "8", "7", " ", "S", "\"", "a", "b", "\"", " ", "P", "\"", "p", "\"", "\"", "s", "\"" >>,
      << "M", "5", "5", "2", " ", "P", "\"", "0", "x", "C", "0", "\"", " ", "S", "1" >>,
      << "M", "5", "4", "0", " ", "P", "1", ":", "2", ":", "3", ":", "4", ":", "5", ":", "A" >>,
      << "M", "5", "5", "2", " ", "P", "1", ".", "2", ".", "3", ".", "4" >>,
      << "M", "2", "3", " ", "a", ".", "g" >>,
      << "G", "1", " ", "X", "{", "f", "}", " ", "P", "{", "i", "}", "S", "{", "s", "}" >>,
      << "M", "5", "6", "9", " ", "P", "1", ".", "2", ":", "3" >>,
      << "G", "1", " ", "X" >>,
      << "M", "9", "8", " ", "P", "\"", "a" >> }

Blanks(n) == [ j \in 1 .. n |-> " " ]

\* lines of a file: commands and language keywords at several indents, one
\* indented beyond its own text and one beyond the capacity of the buffer
FileLines ==
    { << "G", "1", " ", "X", "1" >>,
      << " ", " ", "G", "1", " ", "X", "1" >>,
      << "i", "f", " ", "x" >>,
      << " ", " ", "i", "f", " ", "x" >>,
      << "e", "l", "s", "e" >>,
      << "v", "a", "r", " ", "a" >>,
      << "b", "r", "e", "a", "k" >>,
      << "w", "h", "i", "l", "e", " ", "x" >>,
      << " ", " ", " ", "a", "b", " ", "i", "f" >>,
      << "i", "f", "f", "y", " ", "z" >>,
      << "N", "5", " ", "e", "l", "s", "e" >>,
      << " ", " ", "e", "l", "s", "e" >>,
      << "G", "1", " ", "X", "1", " ", "G", "2" >>,
      Blanks(4) \o << "a", "b" >>,
      Blanks(BufSize) \o << "a", "b" >> }

\* lines of a file read with a condition evaluator: blocks without loops
BlockLines ==
    { << "i", "f", " ", "t", "r", "u", "e" >>,
      << "i", "f", " ", "f", "a", "l", "s", "e" >>,
      << " ", " ", "i", "f", " ", "f", "a", "l", "s", "e" >>,
      << "e", "l", "s", "e" >>,
      << " ", " ", "G", "1", " ", "X", "1" >>,
      << " ", " ", " ", " ", "G", "1", " ", "X", "2" >>,
      << "G", "1", " ", "X", "4" >>,
      << "w", "h", "i", "l", "e", " ", "f", "a", "l", "s", "e" >>,
      << " ", " ", "b", "r", "e", "a", "k" >>,
      << "v", "a", "r", " ", "a" >>,
      << " ", " ", "G", "1", " ", "X", "1", "*", "1" >>,
      << " ", " ", "N", "5", " ", "G", "1", " ", "X", "1", "*", "1" >> }

ChecksumLines == { WithChecksum(b) : b \in Bodies } \cup { WithBadChecksum(b) : b \in Bodies }

FileLine(text) == Append(text, LF)

\* an if block that holds a false if block
NestedIfFile ==
    FileLine(<< "i", "f", " ", "t", "r", "u", "e" >>) \o
    FileLine(<< " ", " ", "G", "1", " ", "X", "1" >>) \o
    FileLine(<< " ", " ", "i", "f", " ", "f", "a", "l", "s", "e" >>) \o
    FileLine(<< " ", " ", " ", " ", "G", "1", " ", "X", "2" >>) \o
    FileLine(<< " ", " ", "G", "1", " ", "X", "3" >>) \o
    FileLine(<< "G", "1", " ", "X", "4" >>)

\* if false ... else ...
IfFalseElseFile ==
    FileLine(<< "i", "f", " ", "f", "a", "l", "s", "e" >>) \o
    FileLine(<< " ", " ", "G", "1", " ", "X", "1" >>) \o
    FileLine(<< "e", "l", "s", "e" >>) \o
    FileLine(<< " ", " ", "G", "1", " ", "X", "2" >>) \o
    FileLine(<< "G", "1", " ", "X", "3" >>)

\* if true ... else ...
IfTrueElseFile ==
    FileLine(<< "i", "f", " ", "t", "r", "u", "e" >>) \o
    FileLine(<< " ", " ", "G", "1", " ", "X", "1" >>) \o
    FileLine(<< "e", "l", "s", "e" >>) \o
    FileLine(<< " ", " ", "G", "1", " ", "X", "2" >>) \o
    FileLine(<< "G", "1", " ", "X", "3" >>)

\* if lines with empty bodies
FlatIfFile ==
    FileLine(<< "i", "f", " ", "f", "a", "l", "s", "e" >>) \o
    FileLine(<< "G", "1", " ", "X", "1" >>) \o
    FileLine(<< "i", "f", " ", "t", "r", "u", "e" >>) \o
    FileLine(<< "G", "1", " ", "X", "2" >>)

\* a loop whose condition stays true
WhileFile ==
    FileLine(<< "w", "h", "i", "l", "e", " ", "t", "r", "u", "e" >>) \o
    FileLine(<< " ", " ", "G", "1", " ", "X", "1" >>) \o
    FileLine(<< "G", "1", " ", "X", "2" >>)

\* a loop left by break
WhileBreakFile ==
    FileLine(<< "w", "h", "i", "l", "e", " ", "t", "r", "u", "e" >>) \o
    FileLine(<< " ", " ", "G", "1", " ", "X", "1" >>) \o
    FileLine(<< " ", " ", "b", "r", "e", "a", "k" >>) \o
    FileLine(<< " ", " ", "G", "1", " ", "X", "2" >>) \o
    FileLine(<< "G", "1", " ", "X", "3" >>)

\* a loop without a body, followed by a block
EmptyWhileFile ==
    FileLine(<< "w", "h", "i", "l", "e", " ", "t", "r", "u", "e" >>) \o
    FileLine(<< "G", "1", " ", "X", "1" >>) \o
    FileLine(<< " ", " ", "G", "1", " ", "X", "2" >>) \o
    FileLine(<< "G", "1", " ", "X", "3" >>)

\* an else that a command line separates from its if block
IfTrueLineElseFile ==
    FileLine(<< "i", "f", " ", "t", "r", "u", "e" >>) \o
    FileLine(<< " ", " ", "G", "1", " ", "X", "1" >>) \o
    FileLine(<< "G", "1", " ", "X", "2" >>) \o
    FileLine(<< "e", "l", "s", "e" >>) \o
    FileLine(<< " ", " ", "G", "1", " ", "X", "3" >>) \o
    FileLine(<< "G", "1", " ", "X", "4" >>)

Scripts == { NestedIfFile, IfFalseElseFile, IfTrueElseFile, FlatIfFile, WhileFile,
             WhileBreakFile, EmptyWhileFile, IfTrueLineElseFile }

\* the lines that may follow the first line of a run
NextLines ==
    { << "G", "1", " ", "X", "1" >>,
      << "N", "3", " ", "G", "4" >>,
      << " ", " ", "M", "3" >>,
      WithChecksum(<< "G", "4" >>) }

\* lines sent to a CNC machine: with and without a command letter in front
CncLines ==
    { << "G", "1", " ", "X", "1" >>,
      << "X", "1", " ", "G", "1", " ", "Y", "2" >>,
      << "T", "1", " ", "M", "3", " ", "T", "2" >>,
      << "I", "5", " ", "J", "0" >> }

\* the lines a run may draw its first line from, and its later lines
Corpus(src) ==
    CASE src = "serial" -> PlainLines \cup ChecksumLines
      [] src = "cnc"    -> CncLines
      [] src = "params" -> ParamLines
      [] src = "file"   -> FileLines
      [] src = "blocks" -> BlockLines
      [] OTHER          -> { }

\* lines that end with a parameter letter or with a closing quote
EndingLines ==
    { << "G", "1", " ", "X" >>,
      << "M", "2", "3", " ", "\"", "a", "\"" >> }

Followers(src) ==
    CASE src = "blocks" -> BlockLines
      [] src = "params" -> { << "G", "1", " ", "X", "1" >> } \cup EndingLines
      [] src = "script" -> { }
      [] OTHER          -> NextLines

\* The calls a consumer makes on one ready command before it releases it.
MaxReads == 2

\* The commands a scripted run may expose before the reader stops.
MaxCommands == 6

(***************************************************************************)
(* The parser as constructed, for a configuration                          *)
(***************************************************************************)
NewParser(cfg) ==
    Init([ bufferState |-> "parseNotStarted",
           buffer |-> [ i \in 0 .. (BufSize - 1) |-> NUL ],
           behind |-> cfg.behind,
           gcodeLineEnd |-> 0, commandLength |-> 0, readPointer |-> -1,
           hadLineNumber |-> FALSE, hadChecksum |-> FALSE,
           computedChecksum |-> 0, declaredChecksum |-> 0, receivedLineNumber |-> 0,
           commandIndent |-> 0, commandStart |-> 0, parameterStart |-> 0, commandEnd |-> 0,
           commandLetter |-> "Q", hasCommandNumber |-> FALSE,
           commandNumber |-> -1, commandFraction |-> -1,
           indentToSkipTo |-> NoIndentSkip,
           checksumRequired |-> cfg.checksumRequired,
           \* the machine state
           lineNumber |-> 0, indentLevel |-> 0, blockStates |-> << PlainBlock >>,
           doingFile |-> cfg.doingFile, previousNull |-> cfg.previousNull,
           g53Active |-> cfg.g53Active, filePosition |-> 0,
           \* the configuration read through reprap and the build
           machineTypeCnc |-> cfg.cnc, axisLetters |-> { "X", "Y", "Z" },
           supportCanExpansion |-> cfg.can, evaluator |-> cfg.evaluator,
           \* the outcome of the last call
           exc |-> "", ret |-> FALSE, ev |-> NoEvents ])

Config(doingFile, checksumRequired, previousNull, cnc, can, evaluator) ==
    [ doingFile |-> doingFile, checksumRequired |-> checksumRequired,
      previousNull |-> previousNull, cnc |-> cnc, can |-> can, g53Active |-> TRUE,
      evaluator |-> evaluator, behind |-> << NUL, NUL >> ]

\* what may lie behind the line buffer in memory
BehindChoices == { << NUL, NUL >>, << "i", "f" >> }

Configs(src) ==
    CASE src = "serial" -> { Config(FALSE, FALSE, TRUE, FALSE, FALSE, "raise") }
                             \cup { Config(FALSE, TRUE, pn, FALSE, FALSE, "raise") : pn \in BOOLEAN }
      [] src = "cnc"    -> { Config(FALSE, FALSE, TRUE, TRUE, FALSE, "raise") }
      [] src = "params" -> { Config(FALSE, FALSE, TRUE, FALSE, can, "raise") : can \in BOOLEAN }
      [] src = "file"   -> { [ Config(TRUE, FALSE, TRUE, FALSE, FALSE, "raise")
                                   EXCEPT !.behind = b ] : b \in BehindChoices }
      [] src = "blocks" -> { Config(TRUE, cr, TRUE, FALSE, FALSE, "literal") : cr \in BOOLEAN }
      [] src = "script" -> { Config(TRUE, FALSE, TRUE, FALSE, FALSE, "literal") }

(***************************************************************************)
(* The observer.  It records, of the line being fed: the bytes fed (raw),  *)
(* whether its terminator was fed (done), the parser as it was when the    *)
(* terminator arrived (before), how many bytes had been fed when the '*'   *)
(* of the checksum was taken (starAt), the buffer text when Put returned   *)
(* true (retained), the commandStart of every command made ready (exposed), *)
(* the commandEnd the last SetFinished found (prevEnd) and whether a       *)
(* getter took the rest of the line (tookRest); of the                     *)
(* calls: whether the call before the last was a Seen that returned true   *)
(* (afterSeen) and the number of reads of the ready command (reads); of a  *)
(* scripted run: the text of every command made ready (commands).          *)
(***************************************************************************)
Snapshot(w) ==
    [ gcodeLineEnd |-> w.gcodeLineEnd, hadLineNumber |-> w.hadLineNumber,
      receivedLineNumber |-> w.receivedLineNumber, hadChecksum |-> w.hadChecksum,
      computedChecksum |-> w.computedChecksum, declaredChecksum |-> w.declaredChecksum,
      commandIndent |-> w.commandIndent, indentToSkipTo |-> w.indentToSkipTo,
      indentLevel |-> w.indentLevel, blockStates |-> w.blockStates,
      lineNumber |-> w.lineNumber ]

NoObservation(w) ==
    [ raw |-> << >>, done |-> TRUE, before |-> Snapshot(w), starAt |-> -1,
      retained |-> << >>, exposed |-> << >>, prevEnd |-> 0, tookRest |-> FALSE,
      commands |-> << >>, afterSeen |-> FALSE, reads |-> 0 ]

StartFrom(sources) ==
    /\ source \in sources
    /\ gb \in { NewParser(cfg) : cfg \in Configs(source) }
    /\ script \in (IF source = "script" THEN Scripts ELSE { << >> })
    /\ pending = << >>
    /\ linesFed = 0
    /\ lastOp = "construct"
    /\ obs = NoObservation(gb)

(***************************************************************************)
(* The calls.  Bytes are fed while no command is ready; a ready command    *)
(* is read with Seen and the getters and released with SetFinished.        *)
(***************************************************************************)
\* the state a call starts from
Calling(w) == [ w EXCEPT !.exc = "", !.ret = "none", !.ev = NoEvents ]

\* the text of the command exposed: buffer[commandStart .. commandEnd)
CommandText(w) == BufText(w, w.commandStart, w.commandEnd)

\* what the observer records of a command DecodeCommand made ready
Exposing(o, w) ==
    IF w.ev.decoded
    THEN [ o EXCEPT !.exposed = Append(o.exposed, w.commandStart),
                    !.commands = IF script # << >> THEN Append(o.commands, CommandText(w))
                                 ELSE o.commands ]
    ELSE o

\* the observer at the first byte of a line
NewLine(o) ==
    [ o EXCEPT !.raw = << >>, !.done = FALSE, !.starAt = -1, !.retained = << >>,
               !.exposed = << >>, !.tookRest = FALSE ]

\* the observer after Put(c) took the parser from v to w
Fed(o, v, w, c) ==
    IF c \in Terminators
    THEN [ o EXCEPT !.done = TRUE, !.before = Snapshot(v), !.afterSeen = FALSE, !.reads = 0,
                    !.retained = IF w.ev.decoded THEN BufText(w, 0, w.gcodeLineEnd) ELSE << >> ]
    ELSE [ o EXCEPT !.raw = Append(o.raw, c), !.afterSeen = FALSE, !.reads = 0,
                    !.starAt = IF ~v.hadChecksum /\ w.hadChecksum THEN Len(o.raw) ELSE @ ]

\* << byte, rest of the line, lines started >>: the bytes the input can deliver next
NextBytes ==
    IF script # << >>
    THEN (IF gb.filePosition < Len(script) /\ Len(obs.commands) < MaxCommands
          THEN { << script[gb.filePosition + 1], << >>, linesFed >> } ELSE { })
    ELSE IF pending # << >> THEN { << Head(pending), Tail(pending), linesFed >> }
    ELSE IF ~obs.done THEN { << t, << >>, linesFed >> : t \in Terminators }
    ELSE IF linesFed < MaxLines
    THEN { << Head(l), Tail(l), linesFed + 1 >> :
             l \in (IF linesFed = 0 THEN Corpus(source) ELSE Followers(source)) }
           \cup { << t, << >>, linesFed + 1 >> : t \in Terminators }
    ELSE { }

PutByte ==
    /\ gb.bufferState # "ready"
    /\ \E n \in NextBytes :
         LET c == n[1]
             w == Put([ Calling(gb) EXCEPT !.filePosition = gb.filePosition + 1 ], c)
         IN  /\ gb' = w
             /\ pending' = n[2]
             /\ linesFed' = n[3]
             /\ lastOp' = "Put"
             /\ obs' = Exposing(Fed(IF obs.done THEN NewLine(obs) ELSE obs, gb, w, c), w)
    /\ UNCHANGED << script, source >>

\* a call made on a ready command
Reading(op, w) ==
    /\ op = "SetFinished" \/ obs.reads < MaxReads
    /\ gb' = w
    /\ lastOp' = op
    /\ obs' = [ Exposing(obs, w) EXCEPT
                   !.afterSeen = (lastOp = "Seen" /\ gb.ret = TRUE),
                   !.reads = IF op = "SetFinished" THEN 0 ELSE @ + 1,
                   !.prevEnd = IF op = "SetFinished" THEN gb.commandEnd ELSE @,
                   !.tookRest = @ \/ op \in { "GetPossiblyQuotedString",
                                              "GetUnprecedentedString" } ]
    /\ UNCHANGED << pending, linesFed, script, source >>

Ready == gb.bufferState = "ready"

SeenLetters == { "X", "Y", "P", "S", "E" }
ArrayLengths == { 1, 2, 4 }

CallSeen == Ready /\ \E c \in SeenLetters : Reading("Seen", Seen(Calling(gb), c))
CallGetFValue == Ready /\ Reading("GetFValue", GetFValue(Calling(gb)))
CallGetIValue == Ready /\ Reading("GetIValue", GetIValue(Calling(gb)))
CallGetUIValue == Ready /\ Reading("GetUIValue", GetUIValue(Calling(gb)))
CallGetDriverId == Ready /\ Reading("GetDriverId", GetDriverId(Calling(gb)))
CallGetFloatArray ==
    Ready /\ \E n \in ArrayLengths, doPad \in BOOLEAN :
                Reading("GetFloatArray", GetFloatArray(Calling(gb), n, doPad))
CallGetIntArray ==
    Ready /\ \E n \in ArrayLengths, doPad \in BOOLEAN :
                Reading("GetIntArray", GetIntArray(Calling(gb), n, doPad))
CallGetUnsignedArray ==
    Ready /\ \E n \in ArrayLengths, doPad \in BOOLEAN :
                Reading("GetUnsignedArray", GetUnsignedArray(Calling(gb), n, doPad))
CallGetDriverIdArray ==
    Ready /\ \E n \in ArrayLengths :
                Reading("GetDriverIdArray", GetDriverIdArray(Calling(gb), n))
CallGetIPAddress == Ready /\ Reading("GetIPAddress", GetIPAddress(Calling(gb)))
CallGetMacAddress == Ready /\ Reading("GetMacAddress", GetMacAddress(Calling(gb)))
CallGetQuotedString == Ready /\ Reading("GetQuotedString", GetQuotedString(Calling(gb)))
CallGetReducedString == Ready /\ Reading("GetReducedString", GetReducedString(Calling(gb)))
CallGetPossiblyQuotedString ==
    Ready /\ Reading("GetPossiblyQuotedString", GetPossiblyQuotedString(Calling(gb)))
CallGetUnprecedentedString ==
    Ready /\ \E allowEmpty \in BOOLEAN :
                Reading("GetUnprecedentedString", GetUnprecedentedString(Calling(gb), allowEmpty))
CallSetFinished == Ready /\ Reading("SetFinished", SetFinished(Calling(gb)))

Next ==
    \/ PutByte
    \/ CallSeen
    \/ CallGetFValue
    \/ CallGetIValue
    \/ CallGetUIValue
    \/ CallGetDriverId
    \/ CallGetFloatArray
    \/ CallGetIntArray
    \/ CallGetUnsignedArray
    \/ CallGetDriverIdArray
    \/ CallGetIPAddress
    \/ CallGetMacAddress
    \/ CallGetQuotedString
    \/ CallGetReducedString
    \/ CallGetPossiblyQuotedString
    \/ CallGetUnprecedentedString
    \/ CallSetFinished

\* The program as written: EvaluateCondition raises.
Start == StartFrom({ "serial", "cnc", "params", "file" })
Spec == Start /\ [][Next]_vars

\* The program with a condition evaluator that reads literal truth values.
StartEval == StartFrom({ "blocks", "script" })
SpecEval == StartEval /\ [][Next]_vars

(***************************************************************************)
(* Properties.  The fed line is read here by its bytes (obs.raw), not by   *)
(* the parser's fields.                                                    *)
(***************************************************************************)
RECURSIVE DropBlanks(_)
DropBlanks(text) ==
    IF text # << >> /\ Head(text) \in { " ", TAB } THEN DropBlanks(Tail(text)) ELSE text

RECURSIVE DigitsValue(_, _)
DigitsValue(text, acc) ==
    IF text # << >> /\ isDigit(Head(text))
    THEN DigitsValue(Tail(text), (10 * acc) + DigitVal(Head(text))) ELSE acc

\* the line starts, after its indentation, with N<k>
LineHasNumber(raw) == DropBlanks(raw) # << >> /\ Head(DropBlanks(raw)) \in { "N", "n" }
LineNumberOf(raw) == DigitsValue(Tail(DropBlanks(raw)), 0)

\* the first word of the line: its bytes after the indentation up to a space or tab
RECURSIVE WordOf(_)
WordOf(text) ==
    IF text = << >> \/ Head(text) \in { " ", TAB } THEN << >>
    ELSE << Head(text) >> \o WordOf(Tail(text))
FirstWord(raw) == WordOf(DropBlanks(raw))

IsPrefix(a, b) == Len(a) <= Len(b) /\ a = SubSeq(b, 1, Len(a))

\* the state is the one Put left when it was given the terminator of a line
LineCompleted == lastOp = "Put" /\ obs.done

BadChecksumAtEnd == obs.before.hadChecksum
                      /\ obs.before.computedChecksum # obs.before.declaredChecksum
MissingChecksumAtEnd == ~obs.before.hadChecksum /\ gb.checksumRequired /\ gb.previousNull
OverflowAtEnd == obs.before.gcodeLineEnd = BufSize
NothingRetainedAtEnd == obs.before.gcodeLineEnd = 0

\* C1: while a line is being fed, from the '*' that starts its checksum on,
\* computedChecksum is the XOR of all the bytes of the line fed before that '*'.
ChecksumCoversLine ==
    (gb.hadChecksum /\ ~obs.done /\ obs.starAt >= 0)
        => gb.computedChecksum = XorAll(SubSeq(obs.raw, 1, obs.starAt))

\* C2: a line with line number n and a checksum that does not match makes Put
\* return true with M998 ready, on which Seen('P') is true and the integer read is n.
ResendRequestReadable ==
    (/\ LineCompleted
     /\ obs.before.hadLineNumber
     /\ BadChecksumAtEnd
     /\ ~NothingRetainedAtEnd
     /\ ~OverflowAtEnd)
        => /\ gb.ret = TRUE
           /\ gb.commandLetter = "M"
           /\ gb.commandNumber = 998
           /\ Seen(Calling(gb), "P").ret = TRUE
           /\ GetIValue(Seen(Calling(gb), "P")).ret = obs.before.receivedLineNumber

\* C3: after every DecodeCommand,
\* commandStart <= parameterStart <= commandEnd <= gcodeLineEnd.
DecodedSpanOrdered ==
    gb.ev.decoded => /\ gb.commandStart <= gb.parameterStart
                     /\ gb.parameterStart <= gb.commandEnd
                     /\ gb.commandEnd <= gb.gcodeLineEnd

\* C4: a completed line that is not dropped and rewinds no loop leaves
\* lineNumber at its N<k>, or one above the value before the line when it has
\* no N prefix; a line of which nothing is retained leaves lineNumber unchanged.
LineNumberFollowsLine ==
    (LineCompleted /\ gb.ev.restartedFrom = -1)
        => IF obs.raw = << >> \/ NothingRetainedAtEnd
           THEN gb.lineNumber = obs.before.lineNumber
           ELSE IF \/ OverflowAtEnd
                   \/ (BadChecksumAtEnd /\ ~obs.before.hadLineNumber)
                   \/ MissingChecksumAtEnd
           THEN TRUE
           ELSE gb.lineNumber = IF LineHasNumber(obs.raw) THEN LineNumberOf(obs.raw)
                                ELSE obs.before.lineNumber + 1

TypedGetters ==
    { "GetFValue", "GetIValue", "GetUIValue", "GetDriverId", "GetFloatArray", "GetIntArray",
      "GetUnsignedArray", "GetDriverIdArray", "GetIPAddress", "GetMacAddress",
      "GetQuotedString", "GetReducedString", "GetPossiblyQuotedString" }

\* C5: a typed getter called after Seen returned true, and that returns
\* without raising, leaves readPointer = -1.
GetterResetsReadPointer ==
    (lastOp \in TypedGetters /\ obs.afterSeen /\ gb.exc = "") => gb.readPointer = -1

\* C6: while a command is ready, readPointer is -1 or lies in
\* [parameterStart, commandEnd].
ReadPointerInSpan ==
    Ready => \/ gb.readPointer = -1
             \/ (gb.parameterStart <= gb.readPointer /\ gb.readPointer <= gb.commandEnd)

Keywords == { << "i","f" >>, << "e","l","s","e" >>, << "w","h","i","l","e" >>,
              << "b","r","e","a","k" >>, << "v","a","r" >> }

HandlerOf(word) ==
    CASE word = << "i","f" >> -> "if"
      [] word = << "e","l","s","e" >> -> "else"
      [] word = << "w","h","i","l","e" >> -> "while"
      [] word = << "b","r","e","a","k" >> -> "break"
      [] word = << "v","a","r" >> -> "var"
      [] OTHER -> ""

\* C9: in a file, a completed line whose first word is if, else, while,
\* break or var goes to the handler of that word and not to DecodeCommand,
\* whatever its indentation; any other line goes to no handler.
KeywordDispatch ==
    (/\ LineCompleted
     /\ gb.doingFile
     /\ obs.raw # << >>
     /\ ~LineHasNumber(obs.raw)
     /\ obs.before.indentToSkipTo = NoIndentSkip)
        => /\ gb.ev.handler = HandlerOf(FirstWord(obs.raw))
           /\ FirstWord(obs.raw) \in Keywords => ~gb.ev.decoded

NestedIfCommands == << << "G","1"," ","X","1" >>, << "G","1"," ","X","3" >>,
                       << "G","1"," ","X","4" >> >>

\* C10: with the evaluator of literal truth values, the file 'if true',
\* '  G1 X1', '  if false', '    G1 X2', '  G1 X3', 'G1 X4' makes ready G1 X1,
\* G1 X3 and G1 X4, in that order, and nothing else.
NestedIfExposure ==
    script = NestedIfFile
        => /\ IsPrefix(obs.commands, NestedIfCommands)
           /\ (gb.filePosition = Len(script) /\ ~Ready) => obs.commands = NestedIfCommands

\* The offsets of the sub-commands of a retained text: offset 0, and every
\* G or M outside quotes that a space or tab precedes.
Quotes(text, n) == Cardinality({ j \in 1 .. n : text[j] = "\"" })
SubCommandOffsets(text) ==
    { 0 } \cup { i - 1 : i \in { j \in 2 .. Len(text) :
                                   /\ toUpper(text[j]) \in { "G", "M" }
                                   /\ text[j - 1] \in { " ", TAB }
                                   /\ Quotes(text, j) % 2 = 0 } }

\* the commands made ready so far are the first sub-commands of the text, in
\* order; after the SetFinished that resets the parser they are all of them
Traversed(text) ==
    /\ \A j \in 1 .. Len(obs.exposed) :
          /\ obs.exposed[j] \in SubCommandOffsets(text)
          /\ Cardinality({ o \in SubCommandOffsets(text) : o < obs.exposed[j] }) = j - 1
    /\ Ready => /\ gb.commandStart = obs.exposed[Len(obs.exposed)]
                /\ Len(obs.exposed) > 1 => gb.commandStart = obs.prevEnd
    /\ ~Ready => /\ lastOp = "SetFinished"
                 /\ gb.bufferState = "parseNotStarted"
                 /\ gb.gcodeLineEnd = 0
                 /\ Len(obs.exposed) = Cardinality(SubCommandOffsets(text))

\* a line is being traversed: Put returned true on it and no byte of a
\* later line has been fed
Traversing == obs.done /\ obs.retained # << >>

\* C7 as stated: Put and the SetFinished calls that follow make ready the
\* sub-commands of the retained text, each once and in order, and the last
\* SetFinished resets the parser.
SubCommandsTraversed == Traversing => Traversed(obs.retained)

\* C7, amended: the same for a line whose retained text starts with G, M or
\* T, as long as no getter that takes the rest of the line was called on it.
StartsWithCommandLetter(text) == toUpper(text[1]) \in { "G", "M", "T" }

CommandLineTraversed ==
    (Traversing /\ StartsWithCommandLetter(obs.retained) /\ ~obs.tookRest)
        => Traversed(obs.retained)

\* three sub-commands of one line have been made ready
ThirdSubCommandReady ==
    /\ Traversing
    /\ StartsWithCommandLetter(obs.retained)
    /\ ~obs.tookRest
    /\ Ready
    /\ Len(obs.exposed) = 3

\* C8: in a file, while indentToSkipTo is set, a completed non-empty line
\* with commandIndent > indentToSkipTo makes Put return false, reaches neither
\* DecodeCommand nor a keyword handler, and leaves indentToSkipTo, indentLevel
\* and the block stack as they were.
SkippedLine ==
    /\ LineCompleted
    /\ gb.doingFile
    /\ obs.raw # << >>
    /\ obs.before.indentToSkipTo # NoIndentSkip
    /\ obs.before.commandIndent > obs.before.indentToSkipTo

SkippedLineSwallowed ==
    SkippedLine => /\ gb.ret = FALSE
                   /\ ~gb.ev.decoded
                   /\ gb.ev.handler = ""
                   /\ gb.indentToSkipTo = obs.before.indentToSkipTo
                   /\ gb.indentLevel = obs.before.indentLevel
                   /\ gb.blockStates = obs.before.blockStates

\* a line that holds a command was swallowed inside a skipped block
CommandLineSkipped ==
    /\ SkippedLine
    /\ ~NothingRetainedAtEnd
    /\ ~OverflowAtEnd
    /\ ~MissingChecksumAtEnd
    /\ ~BadChecksumAtEnd
    /\ gb.ret = FALSE

\* the line just completed is one LineFinished hands on: something of it is
\* retained, it fits the buffer and its checksum raises no objection
LineAccepted ==
    /\ LineCompleted
    /\ obs.raw # << >>
    /\ ~NothingRetainedAtEnd
    /\ ~OverflowAtEnd
    /\ ~BadChecksumAtEnd
    /\ ~MissingChecksumAtEnd

\* the levels of the block stack, as it was before the line, that hold a loop
\* the line's indentation does not exceed
LoopsEndedBy(o) ==
    { k \in 0 .. (Len(o.before.blockStates) - 1) :
         /\ o.before.blockStates[k + 1].kind = "loop"
         /\ o.before.commandIndent <= k }
InnermostLoop(o) == CHOOSE k \in LoopsEndedBy(o) : \A j \in LoopsEndedBy(o) : j <= k

\* a line of a file that is not being skipped, at or left of a loop's 'while'
LoopEndLine ==
    /\ LineAccepted
    /\ gb.doingFile
    /\ ~(obs.before.indentToSkipTo < obs.before.commandIndent)
    /\ LoopsEndedBy(obs) # { }

\* the line was swallowed and the reader stands at the 'while' of the frame
RewoundTo(frame) ==
    /\ gb.ret = FALSE
    /\ ~gb.ev.decoded
    /\ gb.ev.handler = ""
    /\ gb.lineNumber = frame.lineNumber
    /\ gb.ev.restartedFrom = frame.filePos
    /\ gb.filePosition = frame.filePos
    /\ script # << >> =>
          IsPrefix(<< "w","h","i","l","e"," " >>, SubSeq(script, frame.filePos + 1, Len(script)))

\* C11: after a 'while' whose condition was true, a line of the file whose
\* commandIndent is at most the indent of the 'while' is swallowed, sets
\* lineNumber to the line number of the loop's frame and repositions the reader
\* at the file position of the frame, where the 'while' line starts.
LoopEndRewinds ==
    LoopEndLine => RewoundTo(obs.before.blockStates[InnermostLoop(obs) + 1])

\* the line just completed, with text in the buffer that fits it, is one the
\* checksum rules drop
DroppedForChecksum ==
    /\ LineCompleted
    /\ ~NothingRetainedAtEnd
    /\ ~OverflowAtEnd
    /\ \/ (BadChecksumAtEnd /\ ~obs.before.hadLineNumber)
       \/ MissingChecksumAtEnd

\* the line just completed has no checksum and none is asked for
NoChecksumNeeded ==
    /\ LineCompleted
    /\ ~NothingRetainedAtEnd
    /\ ~OverflowAtEnd
    /\ ~obs.before.hadChecksum
    /\ ~(gb.checksumRequired /\ gb.previousNull)

\* the line went on to the line counter: lineNumber follows the line (or the
\* loop the line ended), and outside a file the line's command is ready
PassedOn ==
    /\ \/ gb.ev.restartedFrom # -1
       \/ gb.lineNumber = IF obs.before.hadLineNumber THEN obs.before.receivedLineNumber
                           ELSE obs.before.lineNumber + 1
    /\ ~gb.doingFile => (gb.ret = TRUE /\ gb.ev.decoded /\ Ready)

\* C12: a completed line with a bad checksum and no line number, and one
\* without a checksum where a checksum is required and previous is null, are
\* dropped: Put returns false, the parser is reset with an empty buffer, nothing
\* is decoded and lineNumber, indentLevel and the block stack are unchanged; a
\* line without a checksum is passed on where none is required.
ChecksumDropsSilently ==
    /\ DroppedForChecksum
          => /\ gb.ret = FALSE
             /\ gb.exc = ""
             /\ gb.bufferState = "parseNotStarted"
             /\ gb.gcodeLineEnd = 0
             /\ ~gb.ev.decoded
             /\ gb.ev.handler = ""
             /\ gb.lineNumber = obs.before.lineNumber
             /\ gb.indentLevel = obs.before.indentLevel
             /\ gb.blockStates = obs.before.blockStates
    /\ NoChecksumNeeded => PassedOn

\* a line with a command and a wrong checksum, without line number, was dropped
BadChecksumLineDropped ==
    /\ DroppedForChecksum
    /\ BadChecksumAtEnd
    /\ obs.before.gcodeLineEnd >= 2
    /\ gb.ret = FALSE

\* Put(t) called in the current state, for a byte t the input hands on
Feed(w, t) == Put([ Calling(w) EXCEPT !.filePosition = w.filePosition + 1 ], t)

\* the consumer releases every command of the line that is ready
RECURSIVE Release(_)
Release(w) == IF w.bufferState = "ready" THEN Release(SetFinished(Calling(w))) ELSE w

\* what a call of Put shows: what it returned or raised, the command it made
\* ready, the retained text and the line number
Outcome(w) ==
    [ ret |-> w.ret, exc |-> w.exc, decoded |-> w.ev.decoded, bufferState |-> w.bufferState,
      commandLetter |-> w.commandLetter, commandNumber |-> w.commandNumber,
      commandFraction |-> w.commandFraction, commandStart |-> w.commandStart,
      parameterStart |-> w.parameterStart, commandEnd |-> w.commandEnd,
      retained |-> BufText(w, 0, w.gcodeLineEnd), lineNumber |-> w.lineNumber ]

\* x is the parser after the LF that follows the CR which left the parser as w
SecondTerminatorIdle(w, x) ==
    /\ x.exc = ""
    /\ x.ret = FALSE
    /\ ~x.ev.decoded
    /\ x.lineNumber = w.lineNumber

AfterCrLf(w) == SecondTerminatorIdle(w, Feed(w, LF))

\* C13: whatever has been fed of a line, ending it by LF, by CR or by NUL
\* gives the same outcome of Put (value returned, command made ready, retained
\* text, lineNumber); and the LF of a CR LF pair, fed after the commands the CR
\* made ready were released, makes no command ready and leaves lineNumber.
TerminatorsEquivalent ==
    ~Ready => /\ \A t \in Terminators : Outcome(Feed(gb, t)) = Outcome(Feed(gb, LF))
              /\ AfterCrLf(Release(Feed(gb, CR)))

\* x is the parser after a byte c was fed to the parser w whose buffer is full
ByteDropped(w, c, x) ==
    /\ x.buffer = w.buffer
    /\ x.gcodeLineEnd = w.gcodeLineEnd
    /\ x.computedChecksum = Xor8(w.computedChecksum, Ord[c])
    /\ x.exc = ""
    /\ x.ret = FALSE

\* bytes that are stored when they arrive outside comments
StoredBytes == { "X", "g", "1", " ", "\"", ":" }

\* the buffer is full while the line is being assembled
BufferFull ==
    /\ gb.gcodeLineEnd = BufSize
    /\ gb.bufferState \in { "parsingGCode", "parsingQuotedString" }

LineOverflowed == LineCompleted /\ OverflowAtEnd

\* C14: gcodeLineEnd never exceeds the capacity of the buffer and the buffer
\* holds no byte outside its capacity; a byte to be stored in a full buffer is
\* dropped but added to the checksum; a line whose retained length is the
\* capacity when it ends makes no command: Put returns false, the parser is
\* reset and lineNumber and the block stack are unchanged.
OverflowDiscardsLine ==
    /\ gb.gcodeLineEnd \in 0 .. BufSize
    /\ DOMAIN gb.buffer = 0 .. (BufSize - 1)
    /\ BufferFull => \A c \in StoredBytes : ByteDropped(gb, c, Feed(gb, c))
    /\ LineOverflowed => /\ gb.exc = ""
                         /\ gb.ret = FALSE
                         /\ ~gb.ev.decoded
                         /\ gb.ev.handler = ""
                         /\ gb.bufferState = "parseNotStarted"
                         /\ gb.gcodeLineEnd = 0
                         /\ gb.lineNumber = obs.before.lineNumber
                         /\ gb.indentLevel = obs.before.indentLevel
                         /\ gb.blockStates = obs.before.blockStates

\* a line longer than the buffer has ended
LongLineDiscarded ==
    /\ LineOverflowed
    /\ Len(obs.raw) > BufSize
    /\ gb.ret = FALSE

\* Seen has just returned true: readPointer is behind the letter it found
SeenFound == Ready /\ lastOp = "Seen" /\ gb.ret = TRUE

\* the text of the parameter Seen found: from readPointer to the next space
\* or tab, or to the end of the command
ParameterText == WordOf(BufText(gb, gb.readPointer, gb.commandEnd))

\* a text of decimal numbers with a colon between each two
IsNumberList(word) ==
    /\ word # << >>
    /\ \A j \in 1 .. Len(word) : isDigit(word[j]) \/ word[j] = ":"
    /\ isDigit(word[1]) /\ isDigit(word[Len(word)])
    /\ \A j \in 1 .. (Len(word) - 1) : ~(word[j] = ":" /\ word[j + 1] = ":")

RECURSIVE DropDigits(_)
DropDigits(text) == IF text # << >> /\ isDigit(Head(text)) THEN DropDigits(Tail(text)) ELSE text

\* the numbers of a number list, in the order written
RECURSIVE ListValues(_)
ListValues(word) ==
    IF word = << >> THEN << >>
    ELSE << DigitsValue(word, 0) >>
           \o (IF DropDigits(word) = << >> THEN << >> ELSE ListValues(Tail(DropDigits(word))))

\* what an array getter is to hand back for the values written, the capacity
\* n of the caller's array and doPad
ExpectedArray(vals, n, doPad) ==
    IF doPad /\ Len(vals) = 1 /\ n > 1
    THEN [ arr |-> [ j \in 1 .. n |-> vals[1] ], returnedLength |-> n ]
    ELSE [ arr |-> vals, returnedLength |-> Len(vals) ]

AsFloats(vals) == [ j \in 1 .. Len(vals) |-> Normalised(vals[j], 0) ]

\* x is the parser after the array getter was called
Handed(x, expected) == x.exc = "" /\ x.ret = expected

\* C15: after Seen found a parameter that holds k numbers with colons between
\* them, GetFloatArray, GetIntArray and GetUnsignedArray called with a capacity
\* n >= k hand back the k numbers in the order written with returnedLength k,
\* or, for doPad, k = 1 and n > 1, the one number n times with returnedLength n.
ArraysHoldValues ==
    (SeenFound /\ IsNumberList(ParameterText))
        => \A n \in ArrayLengths, doPad \in BOOLEAN :
              n >= Len(ListValues(ParameterText))
                 => /\ Handed(GetIntArray(Calling(gb), n, doPad),
                              ExpectedArray(ListValues(ParameterText), n, doPad))
                    /\ Handed(GetUnsignedArray(Calling(gb), n, doPad),
                              ExpectedArray(ListValues(ParameterText), n, doPad))
                    /\ Handed(GetFloatArray(Calling(gb), n, doPad),
                              ExpectedArray(AsFloats(ListValues(ParameterText)), n, doPad))

\* a decimal number: digits, then possibly a point and digits
IsDecimal(word) ==
    /\ word # << >>
    /\ isDigit(word[1])
    /\ DropDigits(word) # << >>
          => /\ Head(DropDigits(word)) = "."
             /\ Tail(DropDigits(word)) # << >>
             /\ DropDigits(Tail(DropDigits(word))) = << >>

\* the value a decimal number denotes
DecimalValue(word) ==
    IF DropDigits(word) = << >> THEN Normalised(DigitsValue(word, 0), 0)
    ELSE Normalised(DigitsValue(Tail(DropDigits(word)), DigitsValue(word, 0)),
                    0 - Len(Tail(DropDigits(word))))

\* an expression {name} whose name the object model knows as a number
IsNumberExpression(word) ==
    /\ Len(word) >= 3
    /\ word[1] = "{"
    /\ word[Len(word)] = "}"
    /\ SubSeq(word, 2, Len(word) - 1) \in DOMAIN ObjectModel
    /\ ObjectModel[SubSeq(word, 2, Len(word) - 1)].type \in { "float", "int32", "uint32" }

ExpressionValue(word) ==
    IF ObjectModel[SubSeq(word, 2, Len(word) - 1)].type = "float"
    THEN ObjectModel[SubSeq(word, 2, Len(word) - 1)]
    ELSE Normalised(ObjectModel[SubSeq(word, 2, Len(word) - 1)].v, 0)

\* C16: after Seen returned true, GetFValue reads the number that starts at
\* readPointer, the character behind the letter: 'X20.5' gives 20.5 and 'X5'
\* gives 5; and when that character is '{' it gives the value of the expression.
FloatReadFromLetter ==
    /\ (SeenFound /\ IsDecimal(ParameterText))
          => Handed(GetFValue(Calling(gb)), DecimalValue(ParameterText))
    /\ (SeenFound /\ IsNumberExpression(ParameterText))
          => Handed(GetFValue(Calling(gb)), ExpressionValue(ParameterText))

\* the part of a text before its first control character
RECURSIVE UpToControl(_)
UpToControl(text) ==
    IF text = << >> \/ IsControl(Head(text)) THEN << >>
    ELSE << Head(text) >> \o UpToControl(Tail(text))

\* the rest of the line from readPointer on, without its trailing spaces
RestOfLineText ==
    StripTrailingSpaces(UpToControl(BufText(gb, gb.readPointer, gb.gcodeLineEnd)))

\* Seen found a parameter whose value is a text that is not empty and starts
\* neither a quoted string nor an expression
UnquotedTextFound ==
    /\ SeenFound
    /\ BufAt(gb, gb.readPointer) \notin { "\"", "{" }
    /\ RestOfLineText # << >>

\* C17: GetPossiblyQuotedString, called after Seen found a parameter whose
\* value is a non-empty unquoted text, returns the rest of the line up to the
\* first control character without its trailing spaces, and does not raise.
UnquotedStringReturned ==
    UnquotedTextFound => Handed(GetPossiblyQuotedString(Calling(gb)), RestOfLineText)

\* position p of the command's parameters lies inside a quoted string: it is
\* a quote, or an odd number of quotes precedes it
InsideQuotes(w, p) ==
    \/ BufAt(w, p) = "\""
    \/ Cardinality({ j \in w.parameterStart .. (p - 1) : BufAt(w, j) = "\"" }) % 2 = 1

\* the number of braces open at position p of the command's parameters
RECURSIVE BraceDepth(_, _)
BraceDepth(w, p) ==
    IF p <= w.parameterStart THEN 0
    ELSE IF InsideQuotes(w, p - 1) THEN BraceDepth(w, p - 1)
    ELSE IF BufAt(w, p - 1) = "{" THEN BraceDepth(w, p - 1) + 1
    ELSE IF BufAt(w, p - 1) = "}" /\ BraceDepth(w, p - 1) > 0 THEN BraceDepth(w, p - 1) - 1
    ELSE BraceDepth(w, p - 1)

\* the positions at which the parameter letter c stands
LetterPositions(w, c) ==
    { p \in w.parameterStart .. (w.commandEnd - 1) :
         /\ toUpper(BufAt(w, p)) = c
         /\ ~InsideQuotes(w, p)
         /\ BraceDepth(w, p) = 0
         /\ c = "E" => (p = w.parameterStart \/ ~isDigit(BufAt(w, p - 1))) }

First(positions) == CHOOSE p \in positions : \A q \in positions : p <= q

\* x is the parser after Seen(c) was called on w, where c stands at positions
SeenAsClaimed(w, x, positions) ==
    /\ x.ret = (positions # { })
    /\ x.readPointer = IF positions = { } THEN -1 ELSE First(positions) + 1
    /\ x = [ w EXCEPT !.readPointer = x.readPointer, !.ret = x.ret ]

\* the letters to call Seen with: every letter the buffer holds in either case,
\* and the letters of SeenLetters for those it may not hold
LettersToAsk(w) ==
    SeenLetters \cup ({ toUpper(w.buffer[i]) : i \in 0 .. (BufSize - 1) } \cap UpperSet)

\* C18: on a ready command, Seen(c) for an upper-case letter c returns true
\* exactly when c (in either case) stands in [parameterStart, commandEnd)
\* outside quotes and braces and, for 'E', at parameterStart or not behind a
\* digit; readPointer is then behind the first such position, and -1 when
\* there is none; no other field of the parser changes.
SeenFindsLetter ==
    Ready => \A c \in LettersToAsk(gb) :
                SeenAsClaimed(Calling(gb), Seen(Calling(gb), c), LetterPositions(gb, c))

\* Seen('E') passed over an 'E' that stands behind a digit and found a later one
SeenSkippedExponent ==
    /\ SeenFound
    /\ toUpper(BufAt(gb, gb.readPointer - 1)) = "E"
    /\ \E p \in gb.parameterStart .. (gb.readPointer - 2) :
          toUpper(BufAt(gb, p)) = "E" /\ isDigit(BufAt(gb, p - 1))

\* the getter that left the parser as x raised a parse error (not the
\* internal error of a call that no Seen preceded)
RaisedParseError(x) == x.exc \notin { "", "internal error" }

\* the ready command of w is still the ready command of x
CommandKept(w, x) ==
    /\ x.bufferState = "ready"
    /\ x.commandStart = w.commandStart
    /\ x.parameterStart = w.parameterStart
    /\ x.commandEnd = w.commandEnd
    /\ x.gcodeLineEnd = w.gcodeLineEnd
    /\ x.buffer = w.buffer
    /\ x.commandLetter = w.commandLetter
    /\ x.commandNumber = w.commandNumber
    /\ x.commandFraction = w.commandFraction
    /\ Outcome(SetFinished(Calling(x))) = Outcome(SetFinished(Calling(w)))

\* C19: a typed getter that raises a parse error on a ready command leaves
\* bufferState Ready and commandStart, parameterStart, commandEnd, gcodeLineEnd,
\* the buffer and the command letter, number and fraction as they were, and
\* the SetFinished that follows does what it would have done without the call.
KeptIfFailed(w, x) == RaisedParseError(x) => CommandKept(w, x)

FailedGetterKeepsCommand ==
    Ready =>
      /\ KeptIfFailed(gb, GetFValue(Calling(gb)))
      /\ KeptIfFailed(gb, GetIValue(Calling(gb)))
      /\ KeptIfFailed(gb, GetUIValue(Calling(gb)))
      /\ KeptIfFailed(gb, GetDriverId(Calling(gb)))
      /\ KeptIfFailed(gb, GetIPAddress(Calling(gb)))
      /\ KeptIfFailed(gb, GetMacAddress(Calling(gb)))
      /\ KeptIfFailed(gb, GetQuotedString(Calling(gb)))
      /\ KeptIfFailed(gb, GetReducedString(Calling(gb)))
      /\ KeptIfFailed(gb, GetPossiblyQuotedString(Calling(gb)))
      /\ \A allowEmpty \in BOOLEAN :
            KeptIfFailed(gb, GetUnprecedentedString(Calling(gb), allowEmpty))
      /\ \A n \in ArrayLengths :
            /\ KeptIfFailed(gb, GetDriverIdArray(Calling(gb), n))
            /\ \A doPad \in BOOLEAN :
                  /\ KeptIfFailed(gb, GetFloatArray(Calling(gb), n, doPad))
                  /\ KeptIfFailed(gb, GetIntArray(Calling(gb), n, doPad))
                  /\ KeptIfFailed(gb, GetUnsignedArray(Calling(gb), n, doPad))

\* the bytes of a text fed one after the other
RECURSIVE FeedAll(_, _)
FeedAll(w, text) == IF text = << >> THEN w ELSE FeedAll(Feed(w, Head(text)), Tail(text))

\* the parser w once its line is released, asking for no checksum, after the
\* text was fed to it as a line
FedBack(w, text) ==
    FeedAll([ Release(w) EXCEPT !.checksumRequired = FALSE ], Append(text, LF))

\* r decoded the command that w holds
SameCommand(w, r) ==
    /\ r.exc = ""
    /\ r.ret = TRUE
    /\ r.commandLetter = w.commandLetter
    /\ r.commandNumber = w.commandNumber
    /\ r.commandFraction = w.commandFraction

\* C20 as stated: the text PrintCommand writes for a decoded command, fed
\* back as a line, decodes to the same letter, number and fraction.
PrintedCommandReparses == Ready => SameCommand(gb, FedBack(gb, PrintCommand(gb)))

\* letters the line assembler takes for the start of a line number or for
\* indentation when they come first on a line
FramingLetters == { "N", " ", TAB }

\* C20, amended: the same for every decoded command whose letter is not N,
\* a space or a tab.
PrintedLetterReparses ==
    (Ready /\ gb.commandLetter \notin FramingLetters)
        => SameCommand(gb, FedBack(gb, PrintCommand(gb)))

\* a command with a fraction is ready
FractionCommandReady ==
    /\ Ready
    /\ gb.commandLetter = "G"
    /\ gb.commandNumber > 0
    /\ gb.commandFraction >= 0

\* C21: in the code as written every line dispatched to ProcessIfCommand or
\* ProcessWhileCommand raises the condition error out of Put; no frame is
\* ever an if-true, if-false or loop frame, indentToSkipTo is never set and
\* the file is never rewound.
ConditionsAlwaysRaise ==
    /\ gb.ev.handler = "if"
          => (lastOp = "Put" /\ gb.exc = "Failed to evaluate condition after 'if'")
    /\ gb.ev.handler = "while"
          => (lastOp = "Put" /\ gb.exc = "Failed to evaluate condition after 'while'")
    /\ \A k \in DOMAIN gb.blockStates : gb.blockStates[k] = PlainBlock
    /\ gb.indentToSkipTo = NoIndentSkip
    /\ gb.ev.restartedFrom = -1

\* a 'while' line inside a block was dispatched and raised
WhileRaised ==
    /\ lastOp = "Put"
    /\ gb.ev.handler = "while"
    /\ gb.exc # ""
    /\ FirstWord(obs.raw) = << "w","h","i","l","e" >>

\* the text of a line from its first command byte on, as the claim keeps it:
\* bracketed comments opened outside a quoted string are left out, and the
\* text ends at the first ';' or '*' outside quotes and comments
RECURSIVE KeptText(_, _)
KeptText(text, mode) ==
    IF text = << >> THEN << >>
    ELSE LET c == Head(text)
             rest == Tail(text)
         IN  CASE mode = "comment" ->
                    KeptText(rest, IF c = ")" THEN "code" ELSE "comment")
               [] mode = "quote" ->
                    << c >> \o KeptText(rest, IF c = "\"" THEN "code" ELSE "quote")
               [] OTHER ->
                    IF c \in { ";", "*" } THEN << >>
                    ELSE IF c = "(" THEN KeptText(rest, "comment")
                    ELSE IF c = "\"" THEN << c >> \o KeptText(rest, "quote")
                    ELSE << c >> \o KeptText(rest, "code")

\* the line without its leading blanks and its N<digits> prefix
WithoutPrefix(raw) ==
    IF LineHasNumber(raw) THEN DropBlanks(DropDigits(Tail(DropBlanks(raw))))
    ELSE DropBlanks(raw)

\* C22: the retained buffer of a completed line is the fed line without its
\* leading blanks, its N<digits> prefix and the blanks behind it, its
\* bracketed comments, and everything from the first ';' or '*' outside
\* quotes and comments.
RetainedIsStrippedLine ==
    (LineCompleted /\ gb.exc = "" /\ gb.ret = TRUE)
        => obs.retained = KeptText(WithoutPrefix(obs.raw), "code")

\* bytes that may follow the framing-error byte on its line
BytesBehind == { << >>, << "X" >>, << "\"" >>, << "N", "1" >>, << ";" >>, << "*", "1" >>,
                 << DEL >> }

\* y is the parser reset at the end of a line that gave no command, with the
\* line counter and the block stack as they were in w
LineGaveNothing(w, y) ==
    /\ y.exc = ""
    /\ y.ret = FALSE
    /\ y.bufferState = "parseNotStarted"
    /\ y.gcodeLineEnd = 0
    /\ y.commandIndent = 0
    /\ ~y.hadLineNumber
    /\ ~y.hadChecksum
    /\ y.computedChecksum = 0
    /\ y.lineNumber = w.lineNumber
    /\ y.indentLevel = w.indentLevel
    /\ y.blockStates = w.blockStates
    /\ y.indentToSkipTo = w.indentToSkipTo

\* a 0x7F received in a state other than discarding empties the line
Resynchronises(w, x) ==
    /\ x.gcodeLineEnd = 0
    /\ x.bufferState = "discarding"
    /\ \A more \in BytesBehind, t \in Terminators :
          LineGaveNothing(w, Feed(FeedAll(x, more), t))

\* the 0x7F left the retained bytes alone
NothingDiscarded(w, x) ==
    /\ x.bufferState = w.bufferState
    /\ x.gcodeLineEnd = w.gcodeLineEnd
    /\ x.buffer = w.buffer

\* a line is being assembled and its last byte was a digit of the checksum
AfterChecksumDigits ==
    /\ gb.bufferState = "parsingChecksum"
    /\ ~obs.done
    /\ isDigit(obs.raw[Len(obs.raw)])

\* C23 as stated: a 0x7F received while not discarding empties the line, which
\* gives no command and leaves the line counter and the block stack alone; a
\* 0x7F received after ';' or after the checksum digits discards nothing.
FramingErrorAsStated ==
    /\ gb.bufferState \notin { "discarding", "ready" }
          => Resynchronises(gb, Feed(gb, DEL))
    /\ (gb.bufferState = "discarding" \/ AfterChecksumDigits)
          => NothingDiscarded(gb, Feed(gb, DEL))

\* C23, amended: the same, where the second part is about a 0x7F received in
\* the discarding state only (behind the checksum digits the state is still
\* parsingChecksum).
FramingErrorResynchronises ==
    /\ gb.bufferState \notin { "discarding", "ready" }
          => Resynchronises(gb, Feed(gb, DEL))
    /\ gb.bufferState = "discarding"
          => NothingDiscarded(gb, Feed(gb, DEL))

\* a line with a 0x7F behind retained bytes was fed and gave no command
FramingErrorLineDropped ==
    /\ LineCompleted
    /\ \E j \in 2 .. Len(obs.raw) : obs.raw[j] = DEL
    /\ obs.before.gcodeLineEnd = 0
    /\ gb.ret = FALSE
    /\ gb.bufferState = "parseNotStarted"

\* the levels below the line's indentation that held a loop before the line
LoopsBelow(o) ==
    { k \in 0 .. (Len(o.before.blockStates) - 1) :
         /\ o.before.blockStates[k + 1].kind = "loop"
         /\ k < o.before.commandIndent }
InnermostLoopBelow(o) == CHOOSE k \in LoopsBelow(o) : \A j \in LoopsBelow(o) : j <= k

\* a 'break' line of a file that is neither skipped nor the end of a loop
BreakLine ==
    /\ LineAccepted
    /\ gb.doingFile
    /\ FirstWord(obs.raw) = << "b","r","e","a","k" >>
    /\ ~(obs.before.indentToSkipTo < obs.before.commandIndent)
    /\ LoopsEndedBy(obs) = { }

\* the frames above level k are popped and the frame at level k is plain
BrokenOutTo(k) ==
    /\ gb.exc = ""
    /\ gb.ret = FALSE
    /\ gb.ev.handler = "break"
    /\ gb.ev.restartedFrom = -1
    /\ gb.indentLevel = k
    /\ gb.blockStates = Append(SubSeq(obs.before.blockStates, 1, k), PlainBlock)

\* C24: a 'break' line with a loop frame below its indent level pops the
\* frames down to the innermost such frame and makes it a plain block; a
\* 'break' line with no loop frame below raises.
BreakLeavesLoop ==
    BreakLine => IF LoopsBelow(obs) # { } THEN BrokenOutTo(InnermostLoopBelow(obs))
                 ELSE gb.exc = "'break' was not inside a loop"

\* the lines of a text, without their terminators
RECURSIVE SplitLines(_, _)
SplitLines(text, line) ==
    IF text = << >> THEN (IF line = << >> THEN << >> ELSE << line >>)
    ELSE IF Head(text) = LF THEN << line >> \o SplitLines(Tail(text), << >>)
    ELSE SplitLines(Tail(text), Append(line, Head(text)))

Indent(line) == Len(line) - Len(DropBlanks(line))

\* the line of the scripted file in front of the line just completed
LinesRead == SplitLines(SubSeq(script, 1, gb.filePosition), << >>)
PreviousLine == LinesRead[Len(LinesRead) - 1]

\* an 'else' line of a file that is neither skipped nor the end of a loop
ElseLine ==
    /\ LineAccepted
    /\ gb.doingFile
    /\ FirstWord(obs.raw) = << "e","l","s","e" >>
    /\ ~(obs.before.indentToSkipTo < obs.before.commandIndent)
    /\ LoopsEndedBy(obs) = { }

\* the frame at level k as it was before the line ("none" above the stack)
FrameBefore(k) ==
    IF k < Len(obs.before.blockStates) THEN obs.before.blockStates[k + 1].kind ELSE "none"

\* the three ways of an 'else' at indent k
ElseAt(k) ==
    IF obs.before.indentToSkipTo = k /\ FrameBefore(k) = "ifFalse"
    THEN /\ gb.exc = ""
         /\ gb.ret = FALSE
         /\ gb.indentLevel = k
         /\ CurrentBlockState(gb) = PlainBlock
         /\ gb.indentToSkipTo = NoIndentSkip
    ELSE IF FrameBefore(k) = "ifTrue"
    THEN /\ gb.exc = ""
         /\ gb.ret = FALSE
         /\ gb.indentLevel = k
         /\ gb.indentToSkipTo = k
    ELSE gb.exc = "'else' did not follow 'if"

\* a command line at the indent of the 'else' stands in front of it
CommandLineBeforeElse ==
    /\ script # << >>
    /\ Len(LinesRead) >= 2
    /\ Indent(PreviousLine) = obs.before.commandIndent
    /\ FirstWord(PreviousLine) \notin Keywords

\* C25: an 'else' line at indent k makes the just-skipped if-false frame a
\* plain block, or sets indentToSkipTo to k on an if-true frame, or raises;
\* it raises when a command line at indent k stands between the if block
\* and the 'else'.
ElseThreeWays ==
    ElseLine => /\ ElseAt(obs.before.commandIndent)
                /\ CommandLineBeforeElse => gb.exc = "'else' did not follow 'if"

\* the line last completed had a line number and a bad checksum, and was
\* answered with the resend request
RejectedLine ==
    /\ obs.done
    /\ obs.raw # << >>
    /\ ~NothingRetainedAtEnd
    /\ ~OverflowAtEnd
    /\ obs.before.hadLineNumber
    /\ obs.before.hadChecksum
    /\ obs.before.computedChecksum # obs.before.declaredChecksum

\* the length of the text 'M998 P<n>' written for the line
ResendLength == Len(ResendRequest(obs.before.receivedLineNumber)) - 1

\* C26: a line with line number and bad checksum exposes the resend request
\* and nothing else: the first SetFinished resets the parser, and the span
\* of the command made ready ends with the request's text, in front of what
\* is left of the rejected line.
ResendIsOnlyCommand ==
    RejectedLine =>
        /\ Len(obs.exposed) <= 1
        /\ lastOp = "SetFinished" => gb.bufferState = "parseNotStarted"
        /\ Ready => gb.commandEnd <= ResendLength

\* the indices a comparison of the text at from with word reads, when it
\* compares byte by byte up to the first difference
ComparisonReads(w, from, word) ==
    { (from + j) - 1 : j \in { j \in 1 .. Len(word) :
                                 \A h \in 1 .. (j - 1) : BufAt(w, (from + h) - 1) = word[h] } }

\* the indices of gb.buffer that ProcessConditionalGCode reads for a line
\* with the given indentation: the count of lower-case letters from index 0,
\* the terminator of the word, and the comparison at &gb.buffer[commandIndent]
ConditionalReads(w, indent) ==
    LET i == CountLowerCase(w, 0)
        words == CASE i = 2 -> { << "i","f" >> }
                   [] i = 3 -> { << "v","a","r" >> }
                   [] i = 4 -> { << "e","l","s","e" >> }
                   [] i = 5 -> { << "w","h","i","l","e" >>, << "b","r","e","a","k" >> }
                   [] OTHER -> { }
    IN  (0 .. (IF i = 6 THEN 5 ELSE i))
          \cup (IF i >= 2 /\ i < 6 /\ BufAt(w, i) \in { NUL, " ", TAB }
                THEN UNION { ComparisonReads(w, indent, word) : word \in words }
                ELSE { })

\* a line of a file was handed to ProcessConditionalGCode, which looked for
\* a keyword
ConditionalLine ==
    /\ LineAccepted
    /\ gb.doingFile
    /\ ~(obs.before.indentToSkipTo < obs.before.commandIndent)
    /\ gb.ev.restartedFrom = -1

\* C27: ProcessConditionalGCode reads the line buffer only at indices up to
\* gcodeLineEnd and never outside the array, whatever the indentation.
ConditionalReadsInLine ==
    ConditionalLine =>
        \A p \in ConditionalReads(gb, obs.before.commandIndent) :
            p <= obs.before.gcodeLineEnd /\ p < BufSize

\* the parser with the bytes behind the NUL of its line cleared
WithoutLeftOver(w) ==
    [ w EXCEPT !.buffer = [ i \in DOMAIN w.buffer |->
                              IF i > w.gcodeLineEnd THEN NUL ELSE w.buffer[i] ] ]

\* two calls ended alike: the same error, or the same value returned
SameResult(x, y) == x.exc = y.exc /\ (x.exc = "" => x.ret = y.ret)

\* the bytes an earlier line left behind the current one take no part in
\* what the getters hand back
GettersIgnoreLeftOver(w, v) ==
    /\ SameResult(GetFValue(w), GetFValue(v))
    /\ SameResult(GetIValue(w), GetIValue(v))
    /\ SameResult(GetUIValue(w), GetUIValue(v))
    /\ SameResult(GetQuotedString(w), GetQuotedString(v))
    /\ SameResult(GetReducedString(w), GetReducedString(v))
    /\ SameResult(GetPossiblyQuotedString(w), GetPossiblyQuotedString(v))
    /\ \A n \in ArrayLengths, doPad \in BOOLEAN :
          /\ SameResult(GetFloatArray(w, n, doPad), GetFloatArray(v, n, doPad))
          /\ SameResult(GetIntArray(w, n, doPad), GetIntArray(v, n, doPad))

UnprecedentedIgnoresLeftOver(w, v) ==
    \A allowEmpty \in BOOLEAN :
        SameResult(GetUnprecedentedString(w, allowEmpty), GetUnprecedentedString(v, allowEmpty))

\* C28: no getter reads behind the NUL that ends the current line, so what
\* an earlier, longer line left in the buffer has no influence on a value
\* returned.
LeftOverNeverRead ==
    /\ SeenFound => GettersIgnoreLeftOver(Calling(gb), WithoutLeftOver(Calling(gb)))
    /\ Ready => UnprecedentedIgnoresLeftOver(Calling(gb), WithoutLeftOver(Calling(gb)))

\* Put left by an error raised from LineFinished
PutRaised == lastOp = "Put" /\ gb.exc # ""

\* C29: when Put raises a control-flow error from LineFinished the line is
\* discarded: the buffer is empty, the state is parseNotStarted and
\* commandIndent, hadLineNumber and hadChecksum are cleared.
RaisedLineDiscarded ==
    PutRaised => /\ gb.gcodeLineEnd = 0
                 /\ gb.bufferState = "parseNotStarted"
                 /\ gb.commandIndent = 0
                 /\ ~gb.hadLineNumber
                 /\ ~gb.hadChecksum

\* a 'while' line, or a line inside a loop, of a scripted file was processed
\* and did not rewind the file
LoopLine ==
    /\ script # << >>
    /\ LineAccepted
    /\ gb.exc = ""
    /\ gb.ev.restartedFrom = -1
    /\ ~(obs.before.indentToSkipTo < obs.before.commandIndent)
    /\ (FirstWord(obs.raw) = << "w","h","i","l","e" >> \/ LoopsBelow(obs) # { })

\* C30: the 'while' line and the lines of the loop body have on every
\* iteration the line number they had on the first.  The scripted files hold
\* neither empty lines nor N prefixes, so the number a line has when it is
\* first read is its position in the file.
LoopLineNumbersStable == LoopLine => gb.lineNumber = Len(LinesRead)


\* the line of the scripted file that is being read or was just completed
CurrentLine == LinesRead[Len(LinesRead)]

\* line n of the lines read stands in the body of the loop that the 'while
\* true' at line w opens, behind a 'break' of that body that no 'if' line
\* of the body can have kept from being processed
BehindBreakOf(w, n) ==
    /\ DropBlanks(LinesRead[w]) = << "w","h","i","l","e"," ","t","r","u","e" >>
    /\ \A j \in (w + 1) .. n : Indent(LinesRead[j]) > Indent(LinesRead[w])
    /\ \A j \in (w + 1) .. n : FirstWord(LinesRead[j]) \notin { << "i","f" >>, << "e","l","s","e" >> }
    /\ \E b \in (w + 1) .. (n - 1) : FirstWord(LinesRead[b]) = << "b","r","e","a","k" >>

\* the line just completed stands in a loop body behind a 'break'
BehindBreak ==
    /\ script # << >>
    /\ obs.done
    /\ LinesRead # << >>
    /\ \E w \in 1 .. (Len(LinesRead) - 2) : BehindBreakOf(w, Len(LinesRead))

\* C31: after a 'break' line has been processed inside a loop body, no later
\* line of that body (indent greater than that of the loop's 'while', up to
\* the first line at or below it) is made ready for the consumer.
BreakEndsBody == BehindBreak => ~Ready

=============================================================================
